---- MODULE Spec2Model ----
(***************************************************************************)
(* A model of dynamodb-email-indexer: the stream handler that writes the   *)
(* tantivy index (src/bin/email_index_writer.rs), the search handler that  *)
(* reads it (src/bin/email_index_reader.rs) and the batched lookup of the  *)
(* matched emails in DynamoDB (batch_get_items).                           *)
(*                                                                         *)
(* Option<T> is a sequence: <<>> is None and <<x>> is Some(x).             *)
(* Result<T, E> is a record [ok |-> BOOLEAN, v |-> ...].                   *)
(***************************************************************************)
EXTENDS Integers, Sequences, FiniteSets, TLC

VARIABLES
    index,        \* the committed documents of the index directory, in doc order
    w_pc,         \* writer handler: "idle", "loop", "committed", "failed",
                  \*   "failed_after_commit"
    w_batch,      \* event.records of the invocation being handled
    w_i,          \* position of the for loop in event.records (1-based)
    w_staged,     \* operations the open IndexWriter has staged, in opstamp order
    w_created,    \* created counter
    w_updated,    \* updated counter
    w_deleted,    \* deleted counter
    w_report,     \* Option: the json report of the last committed batch
    log,          \* history: the batches committed so far, oldest first
    lock,         \* the writer lock of the index directory: "free", or the process
                  \*   whose IndexWriter holds it ("w", "o")
    w_before,     \* history: the committed index when the invocation started
    w_redelivered,\* history: the batch being handled was committed by the invocation
                  \*   before, which failed after its commit
    o_pc,         \* stream handler of another process on the same mount: "idle",
                  \*   "open", "done", "failed", "refused"
    o_batch,      \* event.records of that process's invocation
    unseen_since, \* history: Option, when the oldest commit that r_snapshot does
                  \*   not hold was made
    now,          \* the clock (Instant::now()), in seconds
    table,        \* the DynamoDB table: id -> item
    r_pc,         \* reader handler: "idle", "check", "stamp", "search", "hydrate",
                  \*   "done", "fault"
    r_req,        \* the SearchRequest being handled
    r_start,      \* history: when the invocation being handled started
    r_reloaded,   \* history: the invocation being handled reloaded the reader
    r_searched,   \* history: the invocation being handled used a searcher
    r_snapshot,   \* the documents the IndexReader's searcher sees
    r_searcher,   \* search: the documents of the Searcher it took from the reader
    r_gen,        \* history: the number of commits r_snapshot was loaded after
    last_reload,  \* config.last_reload
    r_total,      \* searcher.num_docs()
    r_count,      \* the Count collector's result
    ids,          \* the ids of the top documents, in rank order
    h_next,       \* batch_get_items: first position of ids not yet requested
    h_lookups,    \* history: the keys of each batch_get_item call sent, in order
    emails,       \* batch_get_items: the emails collected so far
    h_unprocessed,\* history: the keys that responses reported as unprocessed
    r_error,      \* Option: the error the handler returned instead of a response
    r_resp,       \* Option: the SearchResponse returned
    poisoned,     \* the reader's mutex is poisoned (a handler panicked holding it)
    mutex,        \* who holds the mutex of the stream handler's process
    s_pc,         \* a second invocation in the stream handler's process
    s_batch,      \* the records the second invocation was given
    index_dir,    \* the index path on the mount: "absent", "empty" (the directory
                  \*   without meta.json), "index"
    e_pc,         \* ensure_index of each process: "start", "create_dir",
                  \*   "create_in_dir", "open", "opened", "failed"
    e_error       \* Option, per process: the context of the error ensure_index returned

wvars == <<index, w_pc, w_batch, w_i, w_staged, w_created, w_updated, w_deleted,
           w_report, log, lock, w_before, w_redelivered, o_pc, o_batch, mutex, s_pc,
           s_batch>>

ovars == <<o_pc, o_batch>>

svars == <<mutex, s_pc, s_batch>>

hvars == <<ids, h_next, h_lookups, emails, h_unprocessed>>

rvars == <<r_pc, r_req, r_start, r_reloaded, r_searched, r_snapshot, r_gen,
           last_reload, r_total, r_count, r_resp, poisoned, r_error, r_searcher>>

evars == <<index_dir, e_pc, e_error>>

vars == <<wvars, rvars, hvars, now, table, unseen_since, evars>>

----
\* Bounds of the model

\* committed batches in one behaviour
MaxCommits == 3
\* records in one delivered batch
MaxBatchLen == 2
\* records delivered in one behaviour, over all its batches
MaxRecords == 3
\* the clock stops here
MaxTime == 8
\* keys one batch_get_item response may leave unprocessed
MaxUnprocessed == 1
\* identities handed to one hydration on its own
MaxIds == 250
\* the most documents of the index the limits are tried on
MaxDocs == 12
\* processes that start on the same mount
MaxOpeners == 3

\* Duration::from_secs(3), the reload interval of the reader
RefreshInterval == 3
\* ids.chunks(100)
ChunkSize == 100
\* request.limit.unwrap_or(10)
DefaultLimit == 10

----
\* DynamoDB attribute values and images

None == <<>>
Some(x) == <<x>>

Ok(x) == [ok |-> TRUE, v |-> <<x>>]
Err(e) == [ok |-> FALSE, v |-> <<e>>]

\* AttributeValue::String / AttributeValue::S
S(s) == [t |-> "S", v |-> <<s>>]
\* AttributeValue::StringSet / AttributeValue::Ss
SS(ss) == [t |-> "SS", v |-> ss]
\* AttributeValue::Number: a type none of the decoders accepts
N(s) == [t |-> "N", v |-> <<s>>]
\* the attribute is not in the map (HashMap::get returns None)
Absent == [t |-> "absent", v |-> <<>>]

Fields == {"id", "timestamp", "subject", "body", "to"}

EmptyImage == [f \in Fields |-> Absent]

EmailImage(id, ts, subject, body, to) ==
    [id |-> S(id), timestamp |-> S(ts), subject |-> S(subject), body |-> S(body),
     to |-> SS(to)]

\* str::parse::<i64> on the decimal strings the model uses
ParseI64(s) ==
    CASE s = "1" -> Ok(1)
      [] s = "2" -> Ok(2)
      [] OTHER -> Err("invalid digit found in string")

\* parse_string: the attribute must be present and a String
parse_string(attributes, attribute_name) ==
    IF attributes[attribute_name].t = "S"
    THEN Ok(attributes[attribute_name].v[1])
    ELSE Err(<<attribute_name, "missing">>)

\* parse_string_array: the attribute must be present and a StringSet
parse_string_array(attributes, attribute_name) ==
    IF attributes[attribute_name].t = "SS"
    THEN Ok(attributes[attribute_name].v)
    ELSE Err(<<attribute_name, "missing">>)

\* parse_document: every one of id, timestamp, subject, body, to is required,
\* and the first that fails is the error returned
parse_document(attributes) ==
    LET id == parse_string(attributes, "id")
        ts == parse_string(attributes, "timestamp")
        subject == parse_string(attributes, "subject")
        body == parse_string(attributes, "body")
        to == parse_string_array(attributes, "to")
    IN  IF ~id.ok THEN id
        ELSE IF ~ts.ok THEN ts
        ELSE IF ~ParseI64(ts.v[1]).ok THEN ParseI64(ts.v[1])
        ELSE IF ~subject.ok THEN subject
        ELSE IF ~body.ok THEN body
        ELSE IF ~to.ok THEN to
        ELSE Ok([id |-> id.v[1], timestamp |-> ParseI64(ts.v[1]).v[1],
                 subject |-> subject.v[1], body |-> body.v[1], to |-> to.v[1]])

\* get_id_term: the term of a document's id field
get_id_term(doc) == doc.id

----
\* The tantivy index writer

AddOp(doc) == [op |-> "add", doc |-> <<doc>>, term |-> <<>>]
DeleteOp(term) == [op |-> "delete", doc |-> <<>>, term |-> <<term>>]

RECURSIVE SelectSeqNotId(_, _)
\* the documents of docs whose id is not term, in order
SelectSeqNotId(docs, term) ==
    IF docs = <<>> THEN <<>>
    ELSE IF Head(docs).id = term THEN SelectSeqNotId(Tail(docs), term)
    ELSE <<Head(docs)>> \o SelectSeqNotId(Tail(docs), term)

\* one staged operation applied: add_document appends, delete_term removes every
\* document with that id that was added before it
ApplyOp(docs, o) ==
    IF o.op = "add" THEN Append(docs, o.doc[1])
    ELSE SelectSeqNotId(docs, o.term[1])

RECURSIVE ApplyOps(_, _)
ApplyOps(docs, ops) ==
    IF ops = <<>> THEN docs
    ELSE ApplyOps(ApplyOp(docs, Head(ops)), Tail(ops))

\* a commit that applies the deletes after all the adds, whatever their order
CommitDeletesLast(docs, ops) ==
    ApplyOps(ApplyOps(docs, SelectSeq(ops, LAMBDA o : o.op = "add")),
             SelectSeq(ops, LAMBDA o : o.op = "delete"))

\* IndexWriter::commit: the staged operations become visible together
Commit(docs, ops) == ApplyOps(docs, ops)

\* documents of docs with the given id
CountId(docs, id) == Cardinality({i \in 1..Len(docs) : docs[i].id = id})

----
\* Change records

Record(event_name, new_image, old_image) ==
    [event_name |-> event_name, new_image |-> new_image, old_image |-> old_image]

Insert(image) == Record("INSERT", image, EmptyImage)
Modify(image) == Record("MODIFY", image, EmptyImage)
Remove(image) == Record("REMOVE", EmptyImage, image)

\* a well-formed email item
Good(id, subject) == EmailImage(id, "1", subject, "world", <<"a@x.com">>)
\* an item with no body attribute
NoBody(id) == [Good(id, "hello") EXCEPT !.body = Absent]
\* an item whose body is a Number
NumBody(id) == [Good(id, "hello") EXCEPT !.body = N("7")]
\* the image {id: "e1", subject: "hello", body: "world", to: ["a@x.com"]}
ExampleImage == [Good("e1", "hello") EXCEPT !.timestamp = Absent]

----
\* The stream handler (email_index_writer.rs)

\* the "INSERT" arm: a new_image that does not decode ends index_write with the
\* error (the ? operator); otherwise the document is added
InsertArm(record) ==
    LET doc == parse_document(record.new_image)
    IN  IF ~doc.ok THEN [ok |-> FALSE, ops |-> <<>>, counted |-> "error"]
        ELSE [ok |-> TRUE, ops |-> <<AddOp(doc.v[1])>>, counted |-> "created"]

\* the "MODIFY" arm without its add_document
ModifyArmDeleteOnly(record) ==
    LET doc == parse_document(record.new_image)
    IN  IF ~doc.ok THEN [ok |-> FALSE, ops |-> <<>>, counted |-> "error"]
        ELSE [ok |-> TRUE, ops |-> <<DeleteOp(get_id_term(doc.v[1]))>>,
              counted |-> "updated"]

\* the "MODIFY" arm without its delete_term
ModifyArmNoDelete(record) ==
    LET doc == parse_document(record.new_image)
    IN  IF ~doc.ok THEN [ok |-> FALSE, ops |-> <<>>, counted |-> "error"]
        ELSE [ok |-> TRUE, ops |-> <<AddOp(doc.v[1])>>, counted |-> "updated"]

\* the "MODIFY" arm: delete_term of the new image's id, then add_document
ModifyArm(record) ==
    LET doc == parse_document(record.new_image)
    IN  IF ~doc.ok THEN [ok |-> FALSE, ops |-> <<>>, counted |-> "error"]
        ELSE [ok |-> TRUE,
              ops |-> <<DeleteOp(get_id_term(doc.v[1])), AddOp(doc.v[1])>>,
              counted |-> "updated"]

\* the "REMOVE" arm that counts the record and stages nothing
RemoveArmNoDelete(record) ==
    LET doc == parse_document(record.old_image)
    IN  IF ~doc.ok THEN [ok |-> FALSE, ops |-> <<>>, counted |-> "error"]
        ELSE [ok |-> TRUE, ops |-> <<>>, counted |-> "deleted"]

\* the "REMOVE" arm: delete_term of the old image's id
RemoveArm(record) ==
    LET doc == parse_document(record.old_image)
    IN  IF ~doc.ok THEN [ok |-> FALSE, ops |-> <<>>, counted |-> "error"]
        ELSE [ok |-> TRUE, ops |-> <<DeleteOp(get_id_term(doc.v[1]))>>,
              counted |-> "deleted"]

\* the match on record.event_name
MatchArm(record) ==
    CASE record.event_name = "INSERT" -> InsertArm(record)
      [] record.event_name = "MODIFY" -> ModifyArm(record)
      [] record.event_name = "REMOVE" -> RemoveArm(record)
      [] OTHER -> [ok |-> TRUE, ops |-> <<>>, counted |-> "none"]

\* a for loop whose delete_term takes effect at once, before the commit
IndexAfterRecordDeletesAtOnce(docs, staged) ==
    ApplyOps(docs, SelectSeq(staged, LAMBDA o : o.op = "delete"))

\* the for loop that commits what it has staged after every record
IndexAfterRecordCommitEach(docs, staged) == Commit(docs, staged)

\* what the for loop does to the committed index: nothing, it only stages
IndexAfterRecord(docs, staged) == docs

\* a report that never counts a record as skipped
ReportNoSkipped(total, created, updated, deleted) ==
    [total |-> total, created |-> created, updated |-> updated, deleted |-> deleted,
     skipped |-> 0]

\* the json report of index_write; skipped is the mathematical difference, and is
\* negative exactly when the u32 subtraction of the code underflows
Report(total, created, updated, deleted) ==
    [total |-> total, created |-> created, updated |-> updated, deleted |-> deleted,
     skipped |-> total - created - updated - deleted]

RECURSIVE RecordsIn(_)
\* the number of records of the batches of a log
RecordsIn(l) == IF l = <<>> THEN 0 ELSE Len(Head(l)) + RecordsIn(Tail(l))

\* the operations index_write stages for a batch it commits
OpsOf(batch) ==
    LET arms == [i \in 1..Len(batch) |-> MatchArm(batch[i]).ops]
        Concat[i \in 0..Len(batch)] == IF i = 0 THEN <<>> ELSE Concat[i - 1] \o arms[i]
    IN  Concat[Len(batch)]

\* a mutex that is given to whoever asks
MutexIgnored(m) == TRUE

\* shared_config.lock(): the mutex is given when nobody holds it; until then the
\* caller waits
MutexIsFree(m) == m = "free"

\* Index::writer that never finds the lock taken
LockIgnored(l) == TRUE

\* Index::writer takes the writer lock of the directory without waiting: it is
\* given only when no IndexWriter holds it
LockIsFree(l) == l = "free"

\* a return that keeps what the invocation holds
NeverReleased(holder, who) == holder

\* the drop of an IndexWriter or of a mutex guard at the end of the handler: what
\* the invocation holds is free again
ReleasedBy(holder, who) == IF holder = who THEN "free" ELSE holder

\* an error path that commits what was staged before the error
IndexAfterFailureCommits(docs, staged) == Commit(docs, staged)

\* what an error before the commit does to the committed index: nothing, the
\* IndexWriter is dropped with what it staged
IndexAfterFailure(docs, staged) == docs

\* lambda_runtime hands the handler an event: the mutex is locked, the index writer
\* opened and index_write entered
WriterInvoke(batch) ==
    /\ w_pc = "idle"
    /\ Len(log) < MaxCommits
    /\ RecordsIn(log) + Len(batch) <= MaxRecords
    /\ MutexIsFree(mutex)
    /\ mutex' = "w"
    /\ LockIsFree(lock)
    /\ lock' = "w"
    /\ w_pc' = "loop"
    /\ w_batch' = batch
    /\ w_i' = 1
    /\ w_staged' = <<>>
    /\ w_created' = 0
    /\ w_updated' = 0
    /\ w_deleted' = 0
    /\ w_before' = index
    /\ w_redelivered' = FALSE
    /\ UNCHANGED <<index, w_report, log, unseen_since, ovars, s_pc, s_batch>>
    /\ UNCHANGED <<rvars, hvars, now, table, evars>>

\* the handler is invoked while the IndexWriter of another process holds the lock:
\* email_index.writer(200_000_000)? returns the lock error and the handler fails
WriterInvokeLockBusy(batch) ==
    /\ w_pc = "idle"
    /\ MutexIsFree(mutex)
    /\ mutex' = "w"
    /\ ~LockIsFree(lock)
    /\ w_pc' = "failed"
    /\ w_batch' = batch
    /\ w_i' = 1
    /\ w_staged' = <<>>
    /\ w_created' = 0
    /\ w_updated' = 0
    /\ w_deleted' = 0
    /\ w_before' = index
    /\ w_redelivered' = FALSE
    /\ UNCHANGED <<index, w_report, log, unseen_since, lock, ovars, s_pc, s_batch>>
    /\ UNCHANGED <<rvars, hvars, now, table, evars>>

\* one iteration of the for loop over event.records
WriterRecord ==
    /\ w_pc = "loop"
    /\ w_i <= Len(w_batch)
    /\ LET arm == MatchArm(w_batch[w_i])
       IN  IF arm.ok
           THEN /\ w_staged' = w_staged \o arm.ops
                /\ w_created' = w_created + (IF arm.counted = "created" THEN 1 ELSE 0)
                /\ w_updated' = w_updated + (IF arm.counted = "updated" THEN 1 ELSE 0)
                /\ w_deleted' = w_deleted + (IF arm.counted = "deleted" THEN 1 ELSE 0)
                /\ w_i' = w_i + 1
                /\ w_pc' = "loop"
                /\ index' = IndexAfterRecord(index, w_staged')
           ELSE \* the error leaves index_write and the handler: the IndexWriter is
                \* dropped with what it staged
                /\ w_pc' = "failed"
                /\ w_staged' = <<>>
                /\ index' = IndexAfterFailure(index, w_staged)
                /\ UNCHANGED <<w_created, w_updated, w_deleted, w_i>>
    /\ UNCHANGED <<w_batch, w_report, log, unseen_since, lock, w_before,
                   w_redelivered, ovars, svars>>
    /\ UNCHANGED <<rvars, hvars, now, table, evars>>

\* after the loop: index_writer.commit() and the report
WriterCommit ==
    /\ w_pc = "loop"
    /\ w_i > Len(w_batch)
    /\ index' = Commit(index, w_staged)
    /\ w_staged' = <<>>
    /\ w_report' = Some(Report(Len(w_batch), w_created, w_updated, w_deleted))
    /\ log' = Append(log, w_batch)
    /\ unseen_since' = IF r_gen = Len(log) THEN Some(now) ELSE unseen_since
    /\ w_pc' = "committed"
    /\ UNCHANGED <<w_batch, w_i, w_created, w_updated, w_deleted, lock, w_before,
                   w_redelivered, ovars, svars>>
    /\ UNCHANGED <<rvars, hvars, now, table, evars>>

\* after the loop: index_writer.commit()? returns an error before anything is
\* published, and index_write and the handler return it
WriterCommitFails ==
    /\ w_pc = "loop"
    /\ w_i > Len(w_batch)
    /\ w_pc' = "failed"
    /\ w_staged' = <<>>
    /\ index' = IndexAfterFailure(index, w_staged)
    /\ UNCHANGED <<w_batch, w_i, w_created, w_updated, w_deleted, w_report, log,
                   unseen_since, lock, w_before, w_redelivered, ovars, svars>>
    /\ UNCHANGED <<rvars, hvars, now, table, evars>>

\* after the commit: index_writer.wait_merging_threads()? returns an error, or the
\* invocation times out, and the invocation is reported as failed
WriterFailsAfterCommit ==
    /\ w_pc = "committed"
    /\ w_pc' = "failed_after_commit"
    /\ UNCHANGED <<index, w_batch, w_i, w_staged, w_created, w_updated, w_deleted,
                   w_report, log, unseen_since, lock, w_before, w_redelivered, ovars, svars>>
    /\ UNCHANGED <<rvars, hvars, now, table, evars>>

\* the handler returns (Ok after the commit, Err after a failure); the IndexWriter
\* is dropped, which releases its lock, and the mutex is released
WriterReturn ==
    /\ w_pc \in {"committed", "failed", "failed_after_commit"}
    /\ w_pc' = "idle"
    /\ w_batch' = <<>>
    /\ w_i' = 1
    /\ w_created' = 0
    /\ w_updated' = 0
    /\ w_deleted' = 0
    /\ w_report' = None
    /\ w_before' = <<>>
    /\ w_redelivered' = FALSE
    /\ lock' = ReleasedBy(lock, "w")
    /\ mutex' = ReleasedBy(mutex, "w")
    /\ UNCHANGED <<index, w_staged, log, unseen_since, ovars, s_pc, s_batch>>
    /\ UNCHANGED <<rvars, hvars, now, table, evars>>

\* the invocation that failed after its commit returns and the stream delivers
\* its batch again: a new invocation opens a new IndexWriter on the same records
WriterRedeliver ==
    /\ w_pc = "failed_after_commit"
    /\ Len(log) < MaxCommits
    /\ RecordsIn(log) + Len(w_batch) <= MaxRecords
    /\ w_pc' = "loop"
    /\ w_i' = 1
    /\ w_staged' = <<>>
    /\ w_created' = 0
    /\ w_updated' = 0
    /\ w_deleted' = 0
    /\ w_report' = None
    /\ w_before' = index
    /\ w_redelivered' = TRUE
    /\ UNCHANGED <<index, w_batch, log, unseen_since, lock, ovars, svars>>
    /\ UNCHANGED <<rvars, hvars, now, table, evars>>

\* the stream handler of another process (another Lambda container on the same
\* EFS mount) is invoked: its Index::writer gets the lock, or the lock error
OtherInvoke(batch) ==
    /\ o_pc = "idle"
    /\ Len(log) < MaxCommits
    /\ RecordsIn(log) + Len(batch) <= MaxRecords
    /\ o_batch' = batch
    /\ IF LockIsFree(lock)
       THEN lock' = "o" /\ o_pc' = "open"
       ELSE o_pc' = "refused" /\ UNCHANGED lock
    /\ UNCHANGED <<index, w_pc, w_batch, w_i, w_staged, w_created, w_updated,
                   w_deleted, w_report, log, unseen_since, w_before, w_redelivered>>
    /\ UNCHANGED <<svars, rvars, hvars, now, table, evars>>

\* index_write of the other process, loop and commit: a record that does not
\* decode ends it before the commit
OtherCommit ==
    /\ o_pc = "open"
    /\ IF \A i \in 1..Len(o_batch) : MatchArm(o_batch[i]).ok
       THEN /\ index' = Commit(index, OpsOf(o_batch))
            /\ log' = Append(log, o_batch)
            /\ unseen_since' = IF r_gen = Len(log) THEN Some(now) ELSE unseen_since
            /\ o_pc' = "done"
       ELSE /\ o_pc' = "failed"
            /\ UNCHANGED <<index, log, unseen_since>>
    /\ UNCHANGED <<w_pc, w_batch, w_i, w_staged, w_created, w_updated, w_deleted,
                   w_report, lock, w_before, w_redelivered, o_batch>>
    /\ UNCHANGED <<svars, rvars, hvars, now, table, evars>>

\* the handler of the other process returns; its IndexWriter, if it had one, is
\* dropped and the lock released
OtherReturn ==
    /\ o_pc \in {"done", "failed", "refused"}
    /\ o_pc' = "idle"
    /\ o_batch' = <<>>
    /\ lock' = ReleasedBy(lock, "o")
    /\ UNCHANGED <<index, w_pc, w_batch, w_i, w_staged, w_created, w_updated,
                   w_deleted, w_report, log, unseen_since, w_before, w_redelivered>>
    /\ UNCHANGED <<svars, rvars, hvars, now, table, evars>>

\* a second invocation of the handler in the same process, while the first may
\* still run: it calls shared_config.lock() and waits there
SecondInvoke(batch) ==
    /\ s_pc = "idle"
    /\ Len(log) < MaxCommits
    /\ RecordsIn(log) + Len(batch) <= MaxRecords
    /\ s_pc' = "waiting"
    /\ s_batch' = batch
    /\ UNCHANGED <<index, w_pc, w_batch, w_i, w_staged, w_created, w_updated,
                   w_deleted, w_report, log, unseen_since, lock, w_before,
                   w_redelivered, ovars, mutex>>
    /\ UNCHANGED <<rvars, hvars, now, table, evars>>

\* the second invocation is given the mutex and opens its IndexWriter
SecondAcquire ==
    /\ s_pc = "waiting"
    /\ MutexIsFree(mutex)
    /\ mutex' = "s"
    /\ IF LockIsFree(lock)
       THEN lock' = "s" /\ s_pc' = "open"
       ELSE s_pc' = "refused" /\ UNCHANGED lock
    /\ UNCHANGED <<index, w_pc, w_batch, w_i, w_staged, w_created, w_updated,
                   w_deleted, w_report, log, unseen_since, w_before,
                   w_redelivered, ovars, s_batch>>
    /\ UNCHANGED <<rvars, hvars, now, table, evars>>

\* index_write of the second invocation, loop and commit: a record that does not
\* decode ends it before the commit
SecondCommit ==
    /\ s_pc = "open"
    /\ IF \A i \in 1..Len(s_batch) : MatchArm(s_batch[i]).ok
       THEN /\ index' = Commit(index, OpsOf(s_batch))
            /\ log' = Append(log, s_batch)
            /\ unseen_since' = IF r_gen = Len(log) THEN Some(now) ELSE unseen_since
            /\ s_pc' = "done"
       ELSE /\ s_pc' = "failed"
            /\ UNCHANGED <<index, log, unseen_since>>
    /\ UNCHANGED <<w_pc, w_batch, w_i, w_staged, w_created, w_updated, w_deleted,
                   w_report, lock, w_before, w_redelivered, ovars, mutex, s_batch>>
    /\ UNCHANGED <<rvars, hvars, now, table, evars>>

\* the second invocation returns: its IndexWriter is dropped, then the guard
SecondReturn ==
    /\ s_pc \in {"done", "failed", "refused"}
    /\ s_pc' = "idle"
    /\ s_batch' = <<>>
    /\ lock' = ReleasedBy(lock, "s")
    /\ mutex' = ReleasedBy(mutex, "s")
    /\ UNCHANGED <<index, w_pc, w_batch, w_i, w_staged, w_created, w_updated,
                   w_deleted, w_report, log, unseen_since, w_before,
                   w_redelivered, ovars>>
    /\ UNCHANGED <<rvars, hvars, now, table, evars>>

----
\* The tantivy query parser and searcher

\* EmailIndexSchema::default_fields
default_fields == <<"id", "timestamp", "subject", "body", "to">>

\* the tokens the default tokenizer of a TEXT field makes of a string
Tokens(text) ==
    CASE text = "a@x.com" -> {"a", "x", "com"}
      [] text = "" -> {}
      [] OTHER -> {text}

\* does the document hold the word in the field? id is a STRING field (one raw
\* term), timestamp an i64 field, subject, body and to are TEXT fields
FieldHasTerm(doc, field, word) ==
    CASE field = "id" -> doc.id = word
      [] field = "timestamp" ->
            ParseI64(word).ok /\ ParseI64(word).v[1] = doc.timestamp
      [] field = "subject" -> word \in Tokens(doc.subject)
      [] field = "body" -> word \in Tokens(doc.body)
      [] field = "to" -> \E i \in 1..Len(doc.to) : word \in Tokens(doc.to[i])

\* QueryParser::parse_query on the query strings of the model. A bare word is a
\* term of every default field; for the i64 field timestamp a word that is no
\* integer is either rejected or left out of the query, as the tantivy release
\* decides (int_strict).
parse_query(query, int_strict) ==
    CASE query = "*" -> Ok([kind |-> "all", field |-> "", word |-> ""])
      [] query = "(" -> Err("Syntax Error")
      [] query = "subject:hello" ->
            Ok([kind |-> "field", field |-> "subject", word |-> "hello"])
      [] OTHER ->
            IF int_strict /\ ~ParseI64(query).ok
            THEN Err("Expected a valid integer")
            ELSE Ok([kind |-> "default", field |-> "", word |-> query])

\* does the document satisfy the parsed query?
Matches(doc, q) ==
    CASE q.kind = "all" -> TRUE
      [] q.kind = "field" -> FieldHasTerm(doc, q.field, q.word)
      [] OTHER -> \E i \in 1..Len(default_fields) :
                      FieldHasTerm(doc, default_fields[i], q.word)

RECURSIVE Matched(_, _)
\* the documents of the searcher that satisfy the query, in doc order
Matched(docs, q) ==
    IF docs = <<>> THEN <<>>
    ELSE IF Matches(Head(docs), q) THEN <<Head(docs)>> \o Matched(Tail(docs), q)
    ELSE Matched(Tail(docs), q)

Min(a, b) == IF a < b THEN a ELSE b

\* a collector that ignores its limit
TopDocsUnlimited(docs, q, limit) == Matched(docs, q)

\* searcher.search(&query, &TopDocs::with_limit(limit)): the best limit matches;
\* the documents of the model score alike, and ties keep doc order
TopDocs(docs, q, limit) == SubSeq(Matched(docs, q), 1, Min(limit, Len(Matched(docs, q))))

\* searcher.search(&query, &Count)
Count(docs, q) == Len(Matched(docs, q))

----
\* SearchResponse

\* SearchResponse::error that also fills emails with an empty list
SearchResponse_error_with_emails(error) ==
    [index_num_docs |-> None, query_num_docs |-> None, emails |-> Some(<<>>),
     error |-> Some(error)]

\* SearchResponse::error
SearchResponse_error(error) ==
    [index_num_docs |-> None, query_num_docs |-> None, emails |-> None,
     error |-> Some(error)]

\* SearchResponse::success
SearchResponse_success(total, count, found) ==
    [index_num_docs |-> Some(total), query_num_docs |-> Some(count),
     emails |-> Some(found), error |-> None]

----
\* DynamoDB and batch_get_items

\* Email::from: every one of id, timestamp, subject, body, to is required
Email_from(attributes) ==
    LET id == parse_string(attributes, "id")
        ts == parse_string(attributes, "timestamp")
        subject == parse_string(attributes, "subject")
        body == parse_string(attributes, "body")
        to == parse_string_array(attributes, "to")
    IN  IF ~id.ok THEN id
        ELSE IF ~ts.ok THEN ts
        ELSE IF ~ParseI64(ts.v[1]).ok THEN ParseI64(ts.v[1])
        ELSE IF ~subject.ok THEN subject
        ELSE IF ~body.ok THEN body
        ELSE IF ~to.ok THEN to
        ELSE Ok([id |-> id.v[1], timestamp |-> ParseI64(ts.v[1]).v[1],
                 subject |-> subject.v[1], body |-> body.v[1], to |-> to.v[1]])

Reverse(seq) == [i \in 1..Len(seq) |-> seq[Len(seq) + 1 - i]]

HasDuplicates(keys) == \E i, j \in 1..Len(keys) : i < j /\ keys[i] = keys[j]

\* the items the table holds for the keys, in the order of the keys
ItemsOf(tbl, keys) ==
    LET held == SelectSeq(keys, LAMBDA key : key \in DOMAIN tbl)
    IN  [i \in 1..Len(held) |-> tbl[held[i]]]

\* what DynamoDB may answer to BatchGetItem: the call fails (always, when two keys
\* are equal), or it returns the items found for the keys it processed, in an order
\* of its own choosing; it may leave keys unprocessed, and names them in the
\* response (UnprocessedKeys)
BatchGetResponses(tbl, keys) ==
    {Err("batch_get_item failed")} \cup
    IF HasDuplicates(keys) THEN {}
    ELSE UNION {
            LET rows == ItemsOf(tbl, SubSeq(keys, 1, Len(keys) - u))
                unprocessed == SubSeq(keys, Len(keys) - u + 1, Len(keys))
            IN  {Ok([rows |-> rows, unprocessed |-> unprocessed]),
                 Ok([rows |-> Reverse(rows), unprocessed |-> unprocessed])}
            : u \in 0..Min(MaxUnprocessed, Len(keys))}

\* the loop over the rows of a response: Email::from(attributes)? on each, so that
\* the first row that does not decode is the error returned
DecodeRows(rows) ==
    LET bad == {i \in 1..Len(rows) : ~Email_from(rows[i]).ok}
    IN  IF bad = {}
        THEN Ok([i \in 1..Len(rows) |-> Email_from(rows[i]).v[1]])
        ELSE Email_from(rows[CHOOSE i \in bad : \A j \in bad : i <= j])

\* chunks one key longer than DynamoDB's limit
ChunkKeysOneMore(all, next) == SubSeq(all, next, Min(next + ChunkSize, Len(all)))

\* ids.chunks(100): the chunk that starts at position next
ChunkKeys(all, next) == SubSeq(all, next, Min(next + ChunkSize - 1, Len(all)))

\* one iteration of the loop over ids.chunks(100): a batch_get_item call, then the
\* rows of its response are decoded and pushed in the order they came
HydrateChunk ==
    /\ r_pc = "hydrate"
    /\ h_next <= Len(ids)
    /\ LET keys == ChunkKeys(ids, h_next)
       IN  /\ h_lookups' = Append(h_lookups, keys)
           /\ \E response \in BatchGetResponses(table, keys) :
                 LET rows == IF response.ok THEN DecodeRows(response.v[1].rows)
                             ELSE response
                 IN  IF rows.ok
                     THEN \* response.unprocessed_keys() is never read
                          /\ emails' = emails \o rows.v[1]
                          /\ h_next' = h_next + Len(keys)
                          /\ h_unprocessed' = h_unprocessed \o response.v[1].unprocessed
                          /\ r_pc' = "hydrate"
                          /\ UNCHANGED r_error
                     ELSE \* the ? operator: batch_get_items, search and the
                          \* handler return the error
                          /\ r_pc' = "fault"
                          /\ r_error' = Some(IF response.ok THEN "decode" ELSE "upstream")
                          /\ UNCHANGED <<emails, h_next, h_unprocessed>>
    /\ UNCHANGED <<wvars, unseen_since, now, table, evars, ids, r_req, r_start, r_reloaded, r_searched,
                   r_snapshot, r_gen, last_reload, r_total, r_count, r_resp,
                   poisoned,
                   r_searcher>>

\* batch_get_items returns the emails and search the success response
HydrateDone ==
    /\ r_pc = "hydrate"
    /\ h_next > Len(ids)
    /\ r_resp' = Some(SearchResponse_success(r_total, r_count, emails))
    /\ r_pc' = "done"
    /\ UNCHANGED <<wvars, unseen_since, hvars, now, table, evars, r_req, r_start, r_reloaded, r_searched,
                   r_snapshot, r_gen, last_reload, r_total, r_count, poisoned, r_error,
                   r_searcher>>

----
\* The search handler (email_index_reader.rs)

\* the SearchRequest the handler deserializes from the event body
Request(query, limit) == [query |-> query, limit |-> limit]

\* an empty result in place of the error
MissingQueryEmptyResult == SearchResponse_success(0, 0, <<>>)

\* the response of search to a request with no query
MissingQuery == SearchResponse_error("query is required")

\* a reader that needed the writer lock of the directory to be free
ReaderNeedsWriterLock(writer_mutex, writer_lock) == writer_lock = "free"

\* shared_config.lock() of the reader: a mutex of the reader's own process. The
\* search handler asks neither for the stream handler's mutex nor for the
\* directory's writer lock (it opens no IndexWriter), whoever holds them
ReaderLockIsFree(writer_mutex, writer_lock) == TRUE

\* a reload that is due as soon as the interval has passed
ReloadDueAtInterval(t, reloaded_at) == t - reloaded_at >= RefreshInterval

\* Instant::now() - config.last_reload > Duration::from_secs(3)
ReloadDue(t, reloaded_at) == t - reloaded_at > RefreshInterval

\* the handler is invoked, locks the mutex, finds the reader old enough and
\* reloads it: the searcher now sees the last commit
ReaderInvokeReload(request) ==
    /\ r_pc = "idle"
    /\ ~poisoned
    /\ ReaderLockIsFree(mutex, lock)
    /\ ReloadDue(now, last_reload)
    /\ r_req' = request
    /\ r_start' = now
    /\ r_snapshot' = index
    /\ r_gen' = Len(log)
    /\ unseen_since' = None
    /\ r_reloaded' = TRUE
    /\ r_searched' = FALSE
    /\ r_resp' = None
    /\ r_pc' = "stamp"
    /\ UNCHANGED <<wvars, hvars, now, table, evars, last_reload, r_total, r_count, poisoned,
                   r_error,
                   r_searcher>>

\* a reload that fails would leave by `?` and still stamp the reader
LastReloadStamped(t, reloaded_at) == t

\* config.index_reader.reload()? returns the error before
\* config.last_reload = Instant::now() is reached
LastReloadAfterFailure(t, reloaded_at) == reloaded_at

\* as above, but index_reader.reload() fails and the handler returns the error
ReaderInvokeReloadFails(request) ==
    /\ r_pc = "idle"
    /\ ~poisoned
    /\ ReaderLockIsFree(mutex, lock)
    /\ ReloadDue(now, last_reload)
    /\ r_req' = request
    /\ r_start' = now
    /\ r_reloaded' = FALSE
    /\ r_searched' = FALSE
    /\ r_resp' = None
    /\ r_pc' = "fault"
    /\ r_error' = Some("reload")
    /\ last_reload' = LastReloadAfterFailure(now, last_reload)
    /\ UNCHANGED <<wvars, unseen_since, hvars, now, table, evars, r_snapshot, r_gen, r_total,
                   r_count, poisoned,
                   r_searcher>>

\* the handler is invoked, locks the mutex and finds the reader young enough
ReaderInvokeNoReload(request) ==
    /\ r_pc = "idle"
    /\ ~poisoned
    /\ ReaderLockIsFree(mutex, lock)
    /\ ~ReloadDue(now, last_reload)
    /\ r_req' = request
    /\ r_start' = now
    /\ r_reloaded' = FALSE
    /\ r_searched' = FALSE
    /\ r_resp' = None
    /\ r_pc' = "search"
    /\ UNCHANGED <<wvars, unseen_since, hvars, now, table, evars, r_snapshot, r_gen, last_reload, r_total,
                   r_count, poisoned, r_error,
                   r_searcher>>

\* the handler is invoked when the mutex is poisoned: lock().unwrap() panics
ReaderInvokePoisoned(request) ==
    /\ r_pc = "idle"
    /\ poisoned
    /\ r_req' = request
    /\ r_start' = now
    /\ r_reloaded' = FALSE
    /\ r_searched' = FALSE
    /\ r_resp' = None
    /\ r_pc' = "panic"
    /\ UNCHANGED <<wvars, unseen_since, hvars, now, table, evars, r_snapshot, r_gen, last_reload, r_total,
                   r_count, poisoned, r_error,
                   r_searcher>>

\* config.last_reload = Instant::now(), the statement after the reload
ReaderStamp ==
    /\ r_pc = "stamp"
    /\ last_reload' = now
    /\ r_pc' = "search"
    /\ UNCHANGED <<wvars, unseen_since, hvars, now, table, evars, r_req, r_start, r_reloaded, r_searched,
                   r_snapshot, r_gen, r_total, r_count, r_resp, poisoned, r_error,
                   r_searcher>>

\* search, up to its call of batch_get_items
ReaderSearch ==
    /\ r_pc = "search"
    /\ IF r_req.query = None
       THEN /\ r_resp' = Some(MissingQuery)
            /\ r_pc' = "done"
            /\ UNCHANGED <<hvars, r_searched, r_total, r_count, r_searcher>>
       ELSE \E int_strict \in BOOLEAN :
            LET query == parse_query(r_req.query[1], int_strict)
                limit == IF r_req.limit = None THEN DefaultLimit ELSE r_req.limit[1]
            IN  IF ~query.ok
                THEN /\ r_resp' = Some(SearchResponse_error(query.v[1]))
                     /\ r_pc' = "done"
                     /\ UNCHANGED <<hvars, r_searched, r_total, r_count, r_searcher>>
                ELSE IF limit = 0
                THEN \* TopDocs::with_limit(0) panics
                     /\ r_searched' = TRUE
                     /\ r_total' = Len(r_snapshot)
                     /\ r_searcher' = r_snapshot
                     /\ r_pc' = "panic"
                     /\ UNCHANGED <<hvars, r_count, r_resp>>
                ELSE /\ r_searched' = TRUE
                     /\ r_searcher' = r_snapshot
                     /\ r_total' = Len(r_snapshot)
                     /\ r_count' = Count(r_snapshot, query.v[1])
                     /\ ids' = [i \in 1..Len(TopDocs(r_snapshot, query.v[1], limit)) |->
                                  TopDocs(r_snapshot, query.v[1], limit)[i].id]
                     /\ h_next' = 1
                     /\ h_lookups' = <<>>
                     /\ emails' = <<>>
                     /\ h_unprocessed' = <<>>
                     /\ r_pc' = "hydrate"
                     /\ UNCHANGED r_resp
    /\ UNCHANGED <<wvars, unseen_since, now, table, evars, r_req, r_start, r_reloaded, r_snapshot, r_gen,
                   last_reload, poisoned, r_error>>

\* collectors that look at what the reader holds when they run
ReaderDocs(searcher, reader) == reader

\* what the collectors of a search look at: the Searcher taken at its start, a
\* set of segment readers that no reload changes
SearcherDocs(searcher, reader) == searcher

\* search in two steps, the first: the query is checked and parsed, the Searcher
\* taken from the reader and asked for num_docs
ReaderTakeSearcher ==
    /\ r_pc = "search"
    /\ IF r_req.query = None
       THEN /\ r_resp' = Some(MissingQuery)
            /\ r_pc' = "done"
            /\ UNCHANGED <<r_searched, r_total, r_searcher>>
       ELSE \E int_strict \in BOOLEAN :
            LET query == parse_query(r_req.query[1], int_strict)
            IN  IF ~query.ok
                THEN /\ r_resp' = Some(SearchResponse_error(query.v[1]))
                     /\ r_pc' = "done"
                     /\ UNCHANGED <<r_searched, r_total, r_searcher>>
                ELSE /\ r_searched' = TRUE
                     /\ r_searcher' = r_snapshot
                     /\ r_total' = Len(r_snapshot)
                     /\ r_pc' = "collect"
                     /\ UNCHANGED r_resp
    /\ UNCHANGED <<wvars, unseen_since, hvars, now, table, evars, r_req, r_start, r_reloaded,
                   r_snapshot, r_gen, last_reload, r_count, poisoned, r_error>>

\* search in two steps, the second: the TopDocs and Count collectors run on the
\* Searcher and the ids of the top documents are read from it
ReaderCollect ==
    /\ r_pc = "collect"
    /\ LET query == parse_query(r_req.query[1], FALSE)
           limit == IF r_req.limit = None THEN DefaultLimit ELSE r_req.limit[1]
           docs == SearcherDocs(r_searcher, r_snapshot)
       IN  IF limit = 0
           THEN \* TopDocs::with_limit(0) panics
                /\ r_pc' = "panic"
                /\ UNCHANGED <<hvars, r_count>>
           ELSE /\ r_count' = Count(docs, query.v[1])
                /\ ids' = [i \in 1..Len(TopDocs(docs, query.v[1], limit)) |->
                             TopDocs(docs, query.v[1], limit)[i].id]
                /\ h_next' = 1
                /\ h_lookups' = <<>>
                /\ emails' = <<>>
                /\ h_unprocessed' = <<>>
                /\ r_pc' = "hydrate"
    /\ UNCHANGED <<wvars, unseen_since, now, table, evars, r_req, r_start, r_reloaded,
                   r_searched, r_snapshot, r_gen, last_reload, r_total, r_resp,
                   poisoned, r_error, r_searcher>>

\* the handler returns: a response, an error or a panic; a panic under the lock
\* poisons the mutex
ReaderReturn ==
    /\ r_pc \in {"done", "fault", "panic"}
    /\ poisoned' = (poisoned \/ r_pc = "panic")
    /\ r_pc' = "idle"
    /\ r_req' = Request(None, None)
    /\ r_start' = 0
    /\ r_reloaded' = FALSE
    /\ r_searched' = FALSE
    /\ r_total' = 0
    /\ r_count' = 0
    /\ r_resp' = None
    /\ ids' = <<>>
    /\ h_next' = 1
    /\ h_lookups' = <<>>
    /\ emails' = <<>>
    /\ h_unprocessed' = <<>>
    /\ r_error' = None
    /\ r_searcher' = <<>>
    /\ UNCHANGED <<wvars, unseen_since, now, table, evars, r_snapshot, r_gen, last_reload>>

\* ReloadPolicy::OnCommit: the reader's watcher sees a new commit and reloads
WatcherReload ==
    /\ r_gen # Len(log)
    /\ r_snapshot' = index
    /\ r_gen' = Len(log)
    /\ unseen_since' = None
    /\ UNCHANGED <<wvars, hvars, now, table, evars, r_pc, r_req, r_start, r_reloaded,
                   r_searched, last_reload, r_total, r_count, r_resp, poisoned,
                   r_error,
                   r_searcher>>

\* a second passes
Tick ==
    /\ now < MaxTime
    /\ now' = now + 1
    /\ UNCHANGED <<wvars, unseen_since, rvars, hvars, table, evars>>

----
\* The specifications

\* sequences over S of length at most n
SeqUpTo(Elems, n) == UNION {[1..k -> Elems] : k \in 0..n}

\* the images the stream delivers
Images ==
    {Good("e1", "hello"), Good("e1", "bye"), Good("e2", "hello"), NoBody("e1"),
     ExampleImage, EmptyImage}

\* the records the stream delivers: the three operations on every image, and an
\* event name that is none of them
Records ==
    {Insert(image) : image \in Images} \cup {Modify(image) : image \in Images}
    \cup {Remove(image) : image \in Images}
    \cup {Record("OTHER", Good("e1", "hello"), EmptyImage)}

Batches == SeqUpTo(Records, MaxBatchLen)

\* the batches delivered while the reader is watched
FewBatches ==
    {<<Insert(ExampleImage)>>,
     <<Insert(Good("e1", "hello")), Insert(Good("e2", "hello"))>>,
     <<Insert(Good("e1", "bye"))>>}

\* the batches delivered while the searches are watched
SearchBatches ==
    {<<Insert(Good("e1", "hello"))>>, <<Insert(Good("e2", "hello"))>>,
     <<Modify(Good("e1", "bye"))>>}

\* the requests sent to the reader
Requests ==
    {Request(None, None), Request(Some("hello"), Some(10)), Request(Some("*"), None),
     Request(Some("("), Some(1)), Request(Some("*"), Some(0))}

\* the requests sent while the writer is watched
FewRequests == {Request(None, None), Request(Some("hello"), Some(10))}

\* the tables the reader looks emails up in
Tables ==
    {[id \in {"e1", "e2"} |-> Good(id, "hello")],
     [id \in {"e2"} |-> Good(id, "hello")],
     [id \in {"e1", "e2"} |-> IF id = "e1" THEN NumBody(id) ELSE Good(id, "hello")]}

\* the processes that call ensure_index on the mount
Openers == 1..MaxOpeners

\* every process has returned from ensure_index with the index
IndexOpened ==
    /\ index_dir = "index"
    /\ e_pc = [p \in Openers |-> "opened"]
    /\ e_error = [p \in Openers |-> <<>>]

\* the state after both handlers have started: the index is new and empty, the
\* reader was opened on it
InitHandlers ==
    /\ index = <<>>
    /\ w_pc = "idle"
    /\ w_batch = <<>>
    /\ w_i = 1
    /\ w_staged = <<>>
    /\ w_created = 0
    /\ w_updated = 0
    /\ w_deleted = 0
    /\ w_report = None
    /\ log = <<>>
    /\ lock = "free"
    /\ w_before = <<>>
    /\ w_redelivered = FALSE
    /\ o_pc = "idle"
    /\ o_batch = <<>>
    /\ mutex = "free"
    /\ s_pc = "idle"
    /\ s_batch = <<>>
    /\ unseen_since = None
    /\ now = 0
    /\ table = [id \in {"e1", "e2"} |-> Good(id, "hello")]
    /\ r_pc = "idle"
    /\ r_req = Request(None, None)
    /\ r_start = 0
    /\ r_reloaded = FALSE
    /\ r_searched = FALSE
    /\ r_snapshot = <<>>
    /\ r_searcher = <<>>
    /\ r_gen = 0
    /\ last_reload = 0
    /\ r_total = 0
    /\ r_count = 0
    /\ ids = <<>>
    /\ h_next = 1
    /\ h_lookups = <<>>
    /\ emails = <<>>
    /\ h_unprocessed = <<>>
    /\ r_error = None
    /\ r_resp = None
    /\ poisoned = FALSE

Init == InitHandlers /\ IndexOpened

Next ==
    \/ \E batch \in FewBatches : WriterInvoke(batch)
    \/ WriterRecord
    \/ WriterCommit
    \/ WriterCommitFails
    \/ WriterFailsAfterCommit
    \/ WriterReturn
    \/ WriterRedeliver
    \/ \E request \in FewRequests : ReaderInvokeReload(request)
    \/ \E request \in FewRequests : ReaderInvokeReloadFails(request)
    \/ \E request \in FewRequests : ReaderInvokeNoReload(request)
    \/ ReaderStamp
    \/ ReaderSearch
    \/ HydrateChunk
    \/ HydrateDone
    \/ ReaderReturn
    \/ WatcherReload
    \/ Tick

Spec == Init /\ [][Next]_vars

\* the stream handler alone, fed every batch
NextWriter ==
    \/ \E batch \in Batches : WriterInvoke(batch)
    \/ WriterRecord
    \/ WriterCommit
    \/ WriterCommitFails
    \/ WriterFailsAfterCommit
    \/ WriterReturn
    \/ WriterRedeliver

SpecWriter == Init /\ [][NextWriter]_vars

\* the batches of one record: the three operations on every image that decodes, and
\* an Insert that does not decode
SingleBatches ==
    {<<Insert(image)>> : image \in {i \in Images : parse_document(i).ok}}
    \cup {<<Modify(image)>> : image \in {i \in Images : parse_document(i).ok}}
    \cup {<<Remove(image)>> : image \in {i \in Images : parse_document(i).ok}}
    \cup {<<Insert(NoBody("e1"))>>}

\* the stream handler alone, fed one record at a time
NextSingles ==
    \/ \E batch \in SingleBatches : WriterInvoke(batch)
    \/ WriterRecord
    \/ WriterCommit
    \/ WriterCommitFails
    \/ WriterFailsAfterCommit
    \/ WriterReturn
    \/ WriterRedeliver

SpecSingles == Init /\ [][NextSingles]_vars

----
\* The searches alone, on what the watcher has loaded and for every table: no time
\* passes, so that the handler never reloads
InitSearch ==
    /\ index = <<>>
    /\ w_pc = "idle"
    /\ w_batch = <<>>
    /\ w_i = 1
    /\ w_staged = <<>>
    /\ w_created = 0
    /\ w_updated = 0
    /\ w_deleted = 0
    /\ w_report = None
    /\ log = <<>>
    /\ lock = "free"
    /\ w_before = <<>>
    /\ w_redelivered = FALSE
    /\ o_pc = "idle"
    /\ o_batch = <<>>
    /\ mutex = "free"
    /\ s_pc = "idle"
    /\ s_batch = <<>>
    /\ IndexOpened
    /\ unseen_since = None
    /\ now = 0
    /\ table \in Tables
    /\ r_pc = "idle"
    /\ r_req = Request(None, None)
    /\ r_start = 0
    /\ r_reloaded = FALSE
    /\ r_searched = FALSE
    /\ r_snapshot = <<>>
    /\ r_searcher = <<>>
    /\ r_gen = 0
    /\ last_reload = 0
    /\ r_total = 0
    /\ r_count = 0
    /\ ids = <<>>
    /\ h_next = 1
    /\ h_lookups = <<>>
    /\ emails = <<>>
    /\ h_unprocessed = <<>>
    /\ r_error = None
    /\ r_resp = None
    /\ poisoned = FALSE

NextSearch ==
    \/ \E batch \in SearchBatches : WriterInvoke(batch)
    \/ WriterRecord
    \/ WriterCommit
    \/ WriterCommitFails
    \/ WriterFailsAfterCommit
    \/ WriterReturn
    \/ WriterRedeliver
    \/ \E request \in Requests : ReaderInvokeNoReload(request)
    \/ \E request \in Requests : ReaderInvokePoisoned(request)
    \/ ReaderSearch
    \/ HydrateChunk
    \/ HydrateDone
    \/ ReaderReturn
    \/ WatcherReload

SpecSearch == InitSearch /\ [][NextSearch]_vars

\* batch_get_items alone, on 0 to MaxIds identities 1, 2, ...: the table holds an
\* email for each of them, or for all but every seventh
IntItem(id) == EmailImage(id, "1", "hello", "world", <<"a@x.com">>)

InitHydrate ==
    /\ index = <<>>
    /\ w_pc = "idle"
    /\ w_batch = <<>>
    /\ w_i = 1
    /\ w_staged = <<>>
    /\ w_created = 0
    /\ w_updated = 0
    /\ w_deleted = 0
    /\ w_report = None
    /\ log = <<>>
    /\ lock = "free"
    /\ w_before = <<>>
    /\ w_redelivered = FALSE
    /\ o_pc = "idle"
    /\ o_batch = <<>>
    /\ mutex = "free"
    /\ s_pc = "idle"
    /\ s_batch = <<>>
    /\ IndexOpened
    /\ unseen_since = None
    /\ now = 0
    /\ table \in {[id \in 1..MaxIds |-> IntItem(id)],
                  [id \in {i \in 1..MaxIds : i % 7 # 0} |-> IntItem(id)]}
    /\ r_pc = "hydrate"
    /\ r_req = Request(Some("*"), Some(MaxIds))
    /\ r_start = 0
    /\ r_reloaded = FALSE
    /\ r_searched = TRUE
    /\ r_snapshot = <<>>
    /\ r_searcher = <<>>
    /\ r_gen = 0
    /\ last_reload = 0
    /\ r_total = MaxIds
    /\ r_count = MaxIds
    /\ \E n \in 0..MaxIds : ids = [i \in 1..n |-> i]
    /\ h_next = 1
    /\ h_lookups = <<>>
    /\ emails = <<>>
    /\ h_unprocessed = <<>>
    /\ r_error = None
    /\ r_resp = None
    /\ poisoned = FALSE

NextHydrate ==
    \/ HydrateChunk
    \/ HydrateDone

SpecHydrate == InitHydrate /\ [][NextHydrate]_vars

----
\* Properties of the stream handler, under SpecWriter (C8: under SpecSingles)

\* the images that parse_document decodes
Decodable == {image \in Images : parse_document(image).ok}

IdOf(image) == parse_document(image).v[1].id

\* the k-th committed batch counted from the last (0 is the last)
Last(k) == log[Len(log) - k]

\* C1: applying the same Insert record twice, in two separate committed batches,
\* leaves exactly one document for that identity, the index state that applying it
\* once gives.
C1_ReplayedInsertLeavesOneDocument ==
    \A image \in Decodable :
        (Len(log) >= 2 /\ Last(0) = <<Insert(image)>> /\ Last(1) = <<Insert(image)>>)
        => /\ CountId(index, IdOf(image)) = 1
           /\ (Len(log) = 2 => index = <<parse_document(image).v[1]>>)

\* the image the operation of a record decodes
ImageOf(record) ==
    IF record.event_name = "REMOVE" THEN record.old_image ELSE record.new_image

\* the records of a batch that index_write has to skip: the operation is none of
\* the three, or its image does not decode
Skippable(batch) ==
    {i \in 1..Len(batch) :
        \/ batch[i].event_name \notin {"INSERT", "MODIFY", "REMOVE"}
        \/ ~parse_document(ImageOf(batch[i])).ok}

\* the records of a batch whose image does not decode
Undecodable(batch) ==
    {i \in 1..Len(batch) :
        /\ batch[i].event_name \in {"INSERT", "MODIFY", "REMOVE"}
        /\ ~parse_document(ImageOf(batch[i])).ok}

\* C3: a record whose image cannot be decoded is skipped: the batch does not fail,
\* the record is counted in skipped and in none of created, updated and deleted,
\* and the other records of the batch are staged and committed.
C3_UndecodableRecordIsSkipped ==
    /\ w_pc # "failed"
    /\ (w_pc = "loop" /\ w_i > Len(w_batch)) =>
            w_created + w_updated + w_deleted = Len(w_batch) - Cardinality(Skippable(w_batch))
    /\ w_pc = "committed" =>
            w_report[1].skipped = Cardinality(Skippable(w_batch))

\* C8: Insert, then Modify, then Remove of one identity, in three separate
\* committed batches, leave no document of that identity in the index.
C8_InsertModifyRemoveLeavesNone ==
    \A a, b, c \in Decodable :
        (/\ Len(log) >= 3
         /\ IdOf(a) = IdOf(b) /\ IdOf(b) = IdOf(c)
         /\ Last(2) = <<Insert(a)>>
         /\ Last(1) = <<Modify(b)>>
         /\ Last(0) = <<Remove(c)>>)
        => CountId(index, IdOf(a)) = 0

\* C8 happens: the three batches were committed for e1, the Modify changing the
\* subject
C8_Witness ==
    /\ w_pc = "committed"
    /\ log = << <<Insert(Good("e1", "hello"))>>, <<Modify(Good("e1", "bye"))>>,
                <<Remove(Good("e1", "bye"))>> >>

----
\* Properties of the reader and the writer together, under Spec

\* the index after the first n batches of the log, each applied whole
IndexAfter(n) ==
    LET After[k \in 0..n] == IF k = 0 THEN <<>> ELSE Commit(After[k - 1], OpsOf(log[k]))
    IN  After[n]

\* C2: batch atomicity. What the reader's searcher sees is the index after a whole
\* number of committed batches: the batches committed before it was loaded, each
\* with all its adds and deletes, and nothing of a batch committed later or still
\* being staged.
C2_SnapshotHoldsWholeBatches ==
    /\ r_gen \in 0..Len(log)
    /\ r_snapshot = IndexAfter(r_gen)

\* C2 happens: the reader has just reloaded and sees both documents of the batch
\* committed before, and nothing of the batch the writer is staging
C2_Witness ==
    /\ r_pc = "stamp"
    /\ log = << <<Insert(Good("e1", "hello")), Insert(Good("e2", "hello"))>> >>
    /\ Len(r_snapshot) = 2
    /\ w_pc = "loop"
    /\ w_staged # <<>>

\* C6 as the specification states it: a request with no query is answered with the
\* error and without any access to the snapshot, which is neither searched nor
\* reloaded by that invocation.
C6_MissingQueryTouchesNothing ==
    (r_pc = "done" /\ r_req.query = None)
    => /\ r_resp = Some(SearchResponse_error("query is required"))
       /\ ~r_searched
       /\ ~r_reloaded

\* C6, amended: a request with no query is answered with the error "query is
\* required" and the snapshot is not searched; the check that precedes every search
\* still reloads the reader when it is due, and the invocation fails without a
\* response only when that reload fails.
C6_MissingQueryIsNotSearched ==
    (r_pc # "idle" /\ r_req.query = None)
    => /\ ~r_searched
       /\ r_pc \in {"stamp", "search", "done", "fault"}
       /\ r_pc = "done" => r_resp = Some(SearchResponse_error("query is required"))
       /\ r_pc = "fault" => ~r_reloaded

\* C6 happens: a request with no query got the error after the handler had
\* reloaded the reader
C6_Witness ==
    /\ r_pc = "done"
    /\ r_req.query = None
    /\ r_reloaded
    /\ r_resp # None

\* the batch of the example of the specification
ExampleBatch == <<Insert(ExampleImage)>>

\* the email the example expects
ExampleEmail == [id |-> "e1", subject |-> "hello", body |-> "world", to |-> <<"a@x.com">>]

\* C9: the batch with the one Insert of {id: "e1", subject: "hello", body: "world",
\* to: ["a@x.com"]} is applied and committed, and once the reader has reloaded,
\* search({query: "hello", limit: 10}) finds one match and returns the record e1.
C9_ExampleIsIndexedAndFound ==
    /\ (w_batch = ExampleBatch /\ w_pc \in {"committed", "failed"}) => w_pc = "committed"
    /\ (/\ r_pc = "done"
        /\ r_req = Request(Some("hello"), Some(10))
        /\ r_gen >= 1
        /\ log[1] = ExampleBatch)
       => /\ r_resp # None
          /\ r_resp[1].query_num_docs = Some(1)
          /\ r_resp[1].emails # None
          /\ Len(r_resp[1].emails[1]) = 1
          /\ r_resp[1].emails[1][1].id = "e1"

\* C10: bounded staleness. A query that starts more than one refresh interval
\* after a commit is run on a snapshot that holds that commit.
C10_QueryAfterIntervalSeesCommit ==
    [][(r_pc = "search" /\ r_searched')
       => ~(unseen_since # None /\ r_start - unseen_since[1] > RefreshInterval)]_vars

----
\* Properties of the searches, under SpecSearch

\* the ids of a sequence of emails
IdsOf(found) == [i \in 1..Len(found) |-> found[i].id]

\* is sub a subsequence of all: its elements are elements of all, in the order
\* they have there?
IsSubsequence(sub, all) ==
    \E pos \in [1..Len(sub) -> 1..Len(all)] :
        /\ \A i \in 1..Len(sub) : all[pos[i]] = sub[i]
        /\ \A i, j \in 1..Len(sub) : i < j => pos[i] < pos[j]

\* C4: hydration keeps the rank order. The emails a search returns are those of a
\* subsequence of the matched ids, in the order of the ids, however DynamoDB orders
\* the rows of its responses.
C4_EmailsInRankOrder ==
    (r_pc = "done" /\ r_resp # None /\ r_resp[1].emails # None)
    => IsSubsequence(IdsOf(r_resp[1].emails[1]), ids)

Populated(field) == field # None

\* C7: every SearchResponse holds either the three fields of a success, all of
\* them, or the error: not both, not neither, and not a part of the three.
C7_SuccessOrError ==
    r_resp # None
    => LET response == r_resp[1]
       IN  \/ /\ Populated(response.index_num_docs)
              /\ Populated(response.query_num_docs)
              /\ Populated(response.emails)
              /\ ~Populated(response.error)
           \/ /\ ~Populated(response.index_num_docs)
              /\ ~Populated(response.query_num_docs)
              /\ ~Populated(response.emails)
              /\ Populated(response.error)

\* C7 happens: the parser rejected the query and search answered with its message
C7_Witness ==
    /\ r_pc = "done"
    /\ r_req.query = Some("(")
    /\ r_resp = Some(SearchResponse_error("Syntax Error"))

----
\* Properties of batch_get_items, under SpecHydrate

\* ceil(n / ChunkSize)
ChunksOf(n) == (n + ChunkSize - 1) \div ChunkSize

\* C5: chunking. The k-th lookup carries the k-th slice of 100 ids (the last slice
\* what is left, at least one), so every id is a key of exactly one lookup; a
\* hydration that returns has sent ceil(n/100) lookups and returns at most n emails.
C5_Chunking ==
    /\ Len(h_lookups) <= ChunksOf(Len(ids))
    /\ \A k \in 1..Len(h_lookups) :
          /\ h_lookups[k] = SubSeq(ids, (k - 1) * ChunkSize + 1, Min(k * ChunkSize, Len(ids)))
          /\ Len(h_lookups[k]) \in 1..ChunkSize
          /\ k < ChunksOf(Len(ids)) => Len(h_lookups[k]) = ChunkSize
    /\ r_pc \in {"hydrate", "done"} => h_next = Len(h_lookups) * ChunkSize + 1
                                          \/ h_next = Len(ids) + 1
    /\ (r_pc = "hydrate" /\ h_next > Len(ids)) \/ r_pc = "done"
          => /\ Len(h_lookups) = ChunksOf(Len(ids))
             /\ Len(emails) <= Len(ids)

\* C5 happens: 250 ids were looked up in lookups of 100, 100 and 50 keys, and fewer
\* than 250 emails came back
C5_Witness ==
    /\ r_pc = "done"
    /\ Len(ids) = 250
    /\ Len(h_lookups) = 3
    /\ Len(h_lookups[1]) = 100 /\ Len(h_lookups[2]) = 100 /\ Len(h_lookups[3]) = 50
    /\ Len(emails) < 250

----
\* Two stream handlers on one index directory, under SpecLock

\* the batches delivered to the two processes
LockBatches ==
    {<<Insert(Good("e1", "hello"))>>, <<Modify(Good("e1", "bye"))>>,
     <<Insert(Good("e2", "hello")), Insert(NoBody("e1"))>>}

NextLock ==
    \/ \E batch \in LockBatches : WriterInvoke(batch)
    \/ \E batch \in LockBatches : WriterInvokeLockBusy(batch)
    \/ WriterRecord
    \/ WriterCommit
    \/ WriterCommitFails
    \/ WriterFailsAfterCommit
    \/ WriterReturn
    \/ WriterRedeliver
    \/ \E batch \in LockBatches : OtherInvoke(batch)
    \/ OtherCommit
    \/ OtherReturn

SpecLock == Init /\ [][NextLock]_vars

\* the handler holds an IndexWriter: from its creation to the return
WriterSessionOpen ==
    \/ w_pc \in {"loop", "committed", "failed_after_commit"}
    \/ w_pc = "failed" /\ lock = "w"

\* the handler of the other process holds an IndexWriter
OtherSessionOpen == o_pc \in {"open", "done", "failed"}

\* C11: at most one writer session is open on the index directory at any time,
\* over every interleaving of the invocations of two processes on the same mount;
\* an invocation that starts while the other's session is open fails, and stages
\* and commits nothing.
C11_SingleWriterSession ==
    /\ [](~(WriterSessionOpen /\ OtherSessionOpen))
    /\ [][(w_pc = "idle" /\ w_pc' # "idle" /\ OtherSessionOpen)
          => (w_pc' = "failed" /\ w_staged' = <<>> /\ index' = index /\ log' = log
              /\ lock' = lock)]_vars
    /\ [][(o_pc = "idle" /\ o_pc' # "idle" /\ WriterSessionOpen)
          => (o_pc' = "refused" /\ index' = index /\ log' = log /\ lock' = lock)]_vars
    /\ [][(w_pc = "failed" => w_pc' \in {"failed", "idle"})
          /\ (o_pc = "refused" => o_pc' \in {"refused", "idle"})]_vars

\* C11 happens: the handler was invoked while the other process had staged its
\* batch, and failed on the lock
C11_Witness ==
    /\ o_pc = "open"
    /\ lock = "o"
    /\ w_pc = "failed"
    /\ w_batch # <<>>
    /\ w_staged = <<>>

----
\* Properties of the searches, under SpecSearch (continued)

\* C12: the query path answers every SearchRequest with a response: for every
\* query string, one the parser rejects included (an error response with the
\* parser's message), and every limit, 0 included, search never panics, and an
\* invocation fails only on an error that is not of the request.
C12_EveryRequestIsAnswered ==
    /\ r_pc # "panic"
    /\ r_pc = "fault" => r_error # None
    /\ (r_pc = "done" /\ r_req.query = Some("("))
          => r_resp = Some(SearchResponse_error("Syntax Error"))


\* the ids of a sequence, as a set
Range(seq) == {seq[i] : i \in 1..Len(seq)}

\* the matched ids whose item the table holds and Email::from decodes
Hydratable == {id \in Range(ids) : id \in DOMAIN table /\ Email_from(table[id]).ok}

\* C13: a matched id whose item is missing from the table, or whose item does not
\* decode, is dropped from the emails: the search does not fail on it, and its
\* success response holds the emails of all the other matched ids.
C13_MissingOrUndecodableIsDropped ==
    /\ r_pc = "fault" => r_error # Some("decode")
    /\ (r_pc = "done" /\ r_resp # None /\ r_resp[1].emails # None
        /\ h_unprocessed = <<>>)
          => Range(IdsOf(r_resp[1].emails[1])) = Hydratable


\* the lookups that carried the key
LookupsOf(key) == {k \in 1..Len(h_lookups) : key \in Range(h_lookups[k])}

\* C14: hydration retries. A batch_get_item call that fails does not fail the
\* search, and a key that a response left unprocessed is requested again before
\* batch_get_items returns.
C14_StoreFailuresAreRetried ==
    /\ r_pc = "fault" => r_error # Some("upstream")
    /\ (r_pc = "done" /\ r_resp # None /\ r_resp[1].emails # None)
          => \A key \in Range(h_unprocessed) : Cardinality(LookupsOf(key)) >= 2

----
\* Properties of the stream handler, under SpecSingles (continued)

\* the number of times a document occurs in an index
Copies(docs, doc) == Cardinality({i \in 1..Len(docs) : docs[i] = doc})

\* do two indexes hold the same documents, each as many times?
SameDocuments(a, b) ==
    \A doc \in Range(a) \cup Range(b) : Copies(a, doc) = Copies(b, doc)

\* C15: redelivery safety. A batch that was committed by an invocation reported as
\* failed, and is delivered and committed again, leaves the index with the
\* documents it held after the first commit.
C15_RedeliveredBatchChangesNothing ==
    (w_pc = "committed" /\ w_redelivered) => SameDocuments(index, w_before)

----
\* The searches alone on an index of 0 to MaxDocs documents 1, 2, ..., every
\* other one with the subject hello, for limits below and above the matches
LimitDoc(id) ==
    [id |-> id, timestamp |-> 1, subject |-> IF id % 2 = 1 THEN "hello" ELSE "bye",
     body |-> "world", to |-> <<"a@x.com">>]

LimitRequests ==
    {Request(Some(query), limit) :
        query \in {"*", "subject:hello"},
        limit \in {None, Some(1), Some(5), Some(MaxDocs - 1)}}

InitLimit ==
    /\ \E n \in 0..MaxDocs : index = [i \in 1..n |-> LimitDoc(i)]
    /\ w_pc = "idle"
    /\ w_batch = <<>>
    /\ w_i = 1
    /\ w_staged = <<>>
    /\ w_created = 0
    /\ w_updated = 0
    /\ w_deleted = 0
    /\ w_report = None
    /\ log = <<>>
    /\ lock = "free"
    /\ w_before = <<>>
    /\ w_redelivered = FALSE
    /\ o_pc = "idle"
    /\ o_batch = <<>>
    /\ mutex = "free"
    /\ s_pc = "idle"
    /\ s_batch = <<>>
    /\ IndexOpened
    /\ unseen_since = None
    /\ now = 0
    /\ table = [id \in 1..MaxDocs |-> IntItem(id)]
    /\ r_pc = "idle"
    /\ r_req = Request(None, None)
    /\ r_start = 0
    /\ r_reloaded = FALSE
    /\ r_searched = FALSE
    /\ r_snapshot = index
    /\ r_searcher = <<>>
    /\ r_gen = 0
    /\ last_reload = 0
    /\ r_total = 0
    /\ r_count = 0
    /\ ids = <<>>
    /\ h_next = 1
    /\ h_lookups = <<>>
    /\ emails = <<>>
    /\ h_unprocessed = <<>>
    /\ r_error = None
    /\ r_resp = None
    /\ poisoned = FALSE

NextLimit ==
    \/ \E request \in LimitRequests : ReaderInvokeNoReload(request)
    \/ ReaderSearch
    \/ HydrateChunk
    \/ HydrateDone
    \/ ReaderReturn

SpecLimit == InitLimit /\ [][NextLimit]_vars

----
\* Properties of the limit, under SpecLimit

\* the limit the request asks for
LimitOf(request) == IF request.limit = None THEN 10 ELSE request.limit[1]

\* the documents of the searcher that satisfy the request's query
Satisfying(request) ==
    {i \in 1..Len(r_snapshot) :
        Matches(r_snapshot[i], parse_query(request.query[1], TRUE).v[1])}

\* C16: a request with no limit is searched with limit 10; no search returns more
\* identities or records than its limit; matched_count is the number of documents
\* of the snapshot that satisfy the query and total_indexed the number of
\* documents of the snapshot, whatever the limit.
C16_LimitBoundsRecordsNotCounts ==
    /\ (r_pc \in {"hydrate", "done"} /\ r_searched) =>
          /\ Len(ids) <= LimitOf(r_req)
          /\ Len(emails) <= LimitOf(r_req)
          /\ r_req.limit = None =>
                Len(ids) = Min(10, Cardinality(Satisfying(r_req)))
          /\ r_count = Cardinality(Satisfying(r_req))
          /\ r_total = Len(r_snapshot)
    /\ (r_pc = "done" /\ r_searched) =>
          /\ r_resp[1].query_num_docs = Some(Cardinality(Satisfying(r_req)))
          /\ r_resp[1].index_num_docs = Some(Len(r_snapshot))
          /\ Len(r_resp[1].emails[1]) <= LimitOf(r_req)

\* C16 happens: twelve documents match, the request has no limit, ten records are
\* returned and matched_count is twelve
C16_Witness ==
    /\ r_pc = "done"
    /\ r_req = Request(Some("*"), None)
    /\ Len(r_snapshot) > 10
    /\ r_resp[1].query_num_docs = Some(Len(r_snapshot))
    /\ Len(r_resp[1].emails[1]) = 10


\* C17: after a committed Modify whose new image decodes, the index holds exactly
\* one document of that identity, the document of the new image, whether it held
\* none, one or more of them before (so also after an Insert or the same Modify).
C17_ModifyLeavesOneDocument ==
    \A image \in Decodable :
        (w_pc = "committed" /\ w_batch = <<Modify(image)>>) =>
            /\ CountId(index, IdOf(image)) = 1
            /\ \E i \in 1..Len(index) : index[i] = parse_document(image).v[1]

\* C17 happens: two documents of e1 were in the index (a replayed Insert), the
\* Modify was committed and one is left
C17_Witness ==
    /\ w_pc = "committed"
    /\ w_batch = <<Modify(Good("e1", "bye"))>>
    /\ CountId(w_before, "e1") = 2
    /\ CountId(index, "e1") = 1

----
\* The stream handler alone, fed batches of up to MaxBatchLen records on two
\* identities, every record decodable
PairRecords ==
    {Insert(image) : image \in {Good("e1", "hello"), Good("e1", "bye"), Good("e2", "hello")}}
    \cup {Modify(image) : image \in {Good("e1", "hello"), Good("e1", "bye")}}
    \cup {Remove(Good("e1", "hello"))}

PairBatches == SeqUpTo(PairRecords, MaxBatchLen)

NextPairs ==
    \/ \E batch \in PairBatches : WriterInvoke(batch)
    \/ WriterRecord
    \/ WriterCommit
    \/ WriterReturn

SpecPairs == Init /\ [][NextPairs]_vars

----
\* Properties of the order within a batch, under SpecPairs

\* one record applied to an index on its own
OneAtATime(docs, record) ==
    CASE record.event_name = "INSERT" ->
            Append(docs, parse_document(record.new_image).v[1])
      [] record.event_name = "MODIFY" ->
            Append(SelectSeqNotId(docs, parse_document(record.new_image).v[1].id),
                   parse_document(record.new_image).v[1])
      [] record.event_name = "REMOVE" ->
            SelectSeqNotId(docs, parse_document(record.old_image).v[1].id)
      [] OTHER -> docs

\* the records of a batch applied to an index one at a time, in sequence
InSequence(docs, batch) ==
    LET After[k \in 0..Len(batch)] ==
            IF k = 0 THEN docs ELSE OneAtATime(After[k - 1], batch[k])
    IN  After[Len(batch)]

\* C18: within one batch the records take effect in delivery order. After the
\* commit the index holds the documents that applying the records to the index
\* before the batch, one at a time in sequence, gives: [Insert K, Remove K]
\* leaves none of K, [Remove K, Insert K] leaves one, [Modify K v1, Modify K v2]
\* leaves only v2.
C18_RecordsTakeEffectInOrder ==
    /\ w_pc = "committed" => SameDocuments(index, InSequence(w_before, w_batch))
    /\ \A a, b \in Decodable :
          (w_pc = "committed" /\ IdOf(a) = IdOf(b)) =>
              /\ w_batch = <<Insert(a), Remove(b)>> => CountId(index, IdOf(a)) = 0
              /\ w_batch = <<Remove(a), Insert(b)>> =>
                    /\ CountId(index, IdOf(a)) = 1
                    /\ Copies(index, parse_document(b).v[1]) = 1
              /\ w_batch = <<Modify(a), Modify(b)>> =>
                    /\ CountId(index, IdOf(a)) = 1
                    /\ Copies(index, parse_document(b).v[1]) = 1

\* C18 happens: e1 was in the index and a batch that removes it and inserts it
\* anew was committed
C18_Witness ==
    /\ w_pc = "committed"
    /\ w_batch = <<Remove(Good("e1", "hello")), Insert(Good("e1", "bye"))>>
    /\ CountId(w_before, "e1") = 1
    /\ CountId(index, "e1") = 1

----
\* Properties of the stream handler, under SpecSingles (stale records)

\* C19: a stale Modify resurrects. After Insert, Remove and then a Modify of one
\* identity, in three committed batches, the index holds exactly one document of
\* that identity, the document of the Modify's new image.
C19_StaleModifyResurrects ==
    \A a, b, c \in Decodable :
        (/\ Len(log) >= 3
         /\ IdOf(a) = IdOf(b) /\ IdOf(b) = IdOf(c)
         /\ Last(2) = <<Insert(a)>>
         /\ Last(1) = <<Remove(b)>>
         /\ Last(0) = <<Modify(c)>>)
        => /\ CountId(index, IdOf(a)) = 1
           /\ Copies(index, parse_document(c).v[1]) = 1

\* C19 happens: e1 was inserted and removed, the index was empty, and the Modify
\* delivered late was committed
C19_Witness ==
    /\ w_pc = "committed"
    /\ Len(log) = 3
    /\ log[1] = <<Insert(Good("e1", "hello"))>>
    /\ log[2] = <<Remove(Good("e1", "hello"))>>
    /\ log[3] = <<Modify(Good("e1", "bye"))>>
    /\ w_before = <<>>
    /\ CountId(index, "e1") = 1

----
\* The stream handler with its failures, and the reader's watcher: the only
\* record of e2 is in a batch whose second record does not decode
RollbackBatches ==
    {<<Insert(Good("e1", "hello"))>>, <<Modify(Good("e1", "bye"))>>,
     <<Insert(Good("e2", "hello")), Insert(NoBody("e1"))>>}

NextRollback ==
    \/ \E batch \in RollbackBatches : WriterInvoke(batch)
    \/ WriterRecord
    \/ WriterCommit
    \/ WriterCommitFails
    \/ WriterFailsAfterCommit
    \/ WriterReturn
    \/ WriterRedeliver
    \/ WatcherReload

SpecRollback == Init /\ [][NextRollback]_vars

----
\* Properties of a failed index_write, under SpecRollback

\* C20: an index_write that ends in an error commits nothing. Its step to the
\* error publishes nothing and drops what was staged; the index and every
\* snapshot the reader loads, then and after later commits, hold the batches
\* whose index_write committed and nothing else, so the document staged only by
\* the failing batch is never in them.
C20_FailedInvocationCommitsNothing ==
    /\ [](w_pc = "failed" => (index = w_before /\ w_staged = <<>>))
    /\ [][(w_pc # "failed" /\ w_pc' = "failed") => (index' = index /\ log' = log)]_vars
    /\ [](index = IndexAfter(Len(log)))
    /\ [](r_gen \in 0..Len(log) /\ r_snapshot = IndexAfter(r_gen))
    /\ [](\A k \in 1..Len(log) : \A i \in 1..Len(log[k]) :
              parse_document(ImageOf(log[k][i])).ok)
    /\ [](CountId(index, "e2") = 0 /\ CountId(r_snapshot, "e2") = 0)

\* C20 happens: index_write staged the document of e2 and failed on its second
\* record, after an earlier batch was committed and loaded by the reader
C20_Witness ==
    /\ w_pc = "failed"
    /\ w_batch = <<Insert(Good("e2", "hello")), Insert(NoBody("e1"))>>
    /\ w_i = 2
    /\ w_created = 1
    /\ w_staged = <<>>
    /\ Len(log) >= 1
    /\ r_gen = Len(log)
    /\ index # <<>>

----
\* Two invocations in the stream handler's process
MutexBatches ==
    {<<Insert(Good("e1", "hello"))>>, <<Modify(Good("e1", "bye"))>>,
     <<Insert(Good("e2", "hello")), Insert(NoBody("e1"))>>}

NextMutex ==
    \/ \E batch \in MutexBatches : WriterInvoke(batch)
    \/ WriterRecord
    \/ WriterCommit
    \/ WriterCommitFails
    \/ WriterFailsAfterCommit
    \/ WriterReturn
    \/ \E batch \in MutexBatches : SecondInvoke(batch)
    \/ SecondAcquire
    \/ SecondCommit
    \/ SecondReturn

SpecMutex == Init /\ [][NextMutex]_vars

----
\* Properties of the mutex, under SpecMutex

\* the second invocation is past shared_config.lock()
SecondRunning == s_pc \in {"open", "done", "failed", "refused"}

\* C21: the mutex is held from before the first record is decoded until after the
\* commit: an invocation that is past lock() holds it until it returns, two
\* invocations of the process are never both past it, and one that finds it
\* taken waits at lock() until it is given the mutex: it does not fail there.
C21_MutexHeldFromDecodeToCommit ==
    /\ [](w_pc # "idle" => mutex = "w")
    /\ [](SecondRunning => mutex = "s")
    /\ [](~(w_pc # "idle" /\ SecondRunning))
    /\ [][s_pc = "waiting" => s_pc' \in {"waiting", "open"}]_vars
    /\ [][(w_pc = "loop" /\ w_pc' \in {"loop", "committed"}) => mutex' = "w"]_vars

\* C21 happens: the first invocation has staged a record and not committed, the
\* second waits for the mutex
C21_Witness ==
    /\ w_pc = "loop"
    /\ w_staged # <<>>
    /\ mutex = "w"
    /\ s_pc = "waiting"

----
\* Two invocations in the stream handler's process, each running to its end:
\* a handler that was invoked takes its steps and returns
SpecRelease ==
    /\ Init
    /\ [][NextMutex]_vars
    /\ WF_vars(WriterRecord)
    /\ WF_vars(WriterCommit \/ WriterCommitFails)
    /\ WF_vars(WriterReturn)
    /\ WF_vars(SecondCommit)
    /\ WF_vars(SecondReturn)

\* C22: every invocation, ended by success or by an error, releases the mutex and
\* its IndexWriter (the lock of the directory): one that returned holds neither,
\* every one that started returns, and an invocation blocked at the mutex comes
\* to find the mutex and the lock free.
C22_EveryInvocationReleases ==
    /\ [](w_pc = "idle" => (mutex # "w" /\ lock # "w"))
    /\ [](s_pc \in {"idle", "waiting"} => (mutex # "s" /\ lock # "s"))
    /\ (w_pc # "idle") ~> (w_pc = "idle")
    /\ SecondRunning ~> (s_pc = "idle")
    /\ (s_pc = "waiting") ~> (s_pc # "waiting" \/ (mutex = "free" /\ lock = "free"))

\* C22 happens: after a commit the first invocation has returned and the second,
\* which holds the mutex and the IndexWriter now, has failed on a record
C22_Witness ==
    /\ w_pc = "idle"
    /\ Len(log) >= 1
    /\ s_pc = "failed"
    /\ mutex = "s"
    /\ lock = "s"

----
\* Properties of the commit, under SpecPairs

\* C23: an index_write that returns Ok issues exactly one commit, after the last
\* record of its batch was staged: the loop publishes nothing, the step that ends
\* it commits all that the records staged as one batch, nothing is committed
\* after it by the same invocation, and a batch of no records is committed too.
C23_OneCommitAfterLastRecord ==
    /\ [](w_pc = "committed" => (Len(log) >= 1 /\ Last(0) = w_batch /\ w_staged = <<>>))
    /\ [][(w_pc = "loop" /\ w_i <= Len(w_batch)) => (index' = index /\ log' = log)]_vars
    /\ [][log' # log =>
            /\ w_pc = "loop" /\ w_i = Len(w_batch) + 1 /\ w_pc' = "committed"
            /\ w_staged = OpsOf(w_batch)
            /\ log' = Append(log, w_batch)
            /\ index' = Commit(index, OpsOf(w_batch))]_vars
    /\ [][(w_pc # "committed" /\ w_pc' = "committed") => Len(log') = Len(log) + 1]_vars
    /\ [][w_pc = "committed" => (log' = log /\ index' = index)]_vars

\* C23 happens: a batch of no records was committed after a batch of two
C23_Witness ==
    /\ w_pc = "committed"
    /\ w_batch = <<>>
    /\ Len(log) = 2
    /\ Len(log[1]) = 2
    /\ log[2] = <<>>
    /\ w_report # None

----
\* The reader with its clock and its watcher, and a writer that commits one
\* batch of one record time and again
RefreshBatches == {<<Insert(Good("e1", "hello"))>>}

\* a query that no document of these batches satisfies: nothing is hydrated
RefreshRequests == {Request(Some("absent"), None)}

InitRefresh == Init /\ table = [id \in {"e1", "e2"} |-> Good(id, "hello")]

NextRefresh ==
    \/ \E batch \in RefreshBatches : WriterInvoke(batch)
    \/ WriterRecord
    \/ WriterCommit
    \/ WriterReturn
    \/ \E request \in RefreshRequests : ReaderInvokeReload(request)
    \/ \E request \in RefreshRequests : ReaderInvokeReloadFails(request)
    \/ \E request \in RefreshRequests : ReaderInvokeNoReload(request)
    \/ ReaderStamp
    \/ ReaderSearch
    \/ HydrateDone
    \/ ReaderReturn
    \/ WatcherReload
    \/ Tick

SpecRefresh == InitRefresh /\ [][NextRefresh]_vars

----
\* Properties of the refresh, under SpecRefresh

\* a query starts: the handler leaves its refresh check
QueryStarts == r_pc = "idle" /\ r_pc' # "idle"

\* C24 as stated: the snapshot is replaced by the latest committed one and
\* last_reload set to now exactly when a query starts more than RefreshInterval
\* after last_reload; otherwise the query is served from the snapshot of the
\* query before it and last_reload is unchanged, whatever was committed since.
C24_SnapshotChangesOnlyWhenDue ==
    /\ [][QueryStarts =>
            IF now - last_reload > RefreshInterval
            THEN r_gen' = Len(log) /\ r_snapshot' = index /\ r_pc' = "stamp"
            ELSE r_gen' = r_gen /\ r_snapshot' = r_snapshot
                 /\ last_reload' = last_reload /\ r_pc' = "search"]_vars
    /\ [][last_reload' # last_reload =>
            (r_pc = "stamp" /\ r_reloaded /\ last_reload' = now)]_vars
    /\ [][(r_gen' # r_gen \/ r_snapshot' # r_snapshot) =>
            (QueryStarts /\ now - last_reload > RefreshInterval)]_vars

\* C24, amended: the handler reloads exactly when a query starts more than
\* RefreshInterval after last_reload. A reload that succeeds loads the latest
\* committed index and is followed by last_reload = now; one that fails changes
\* neither. A query that starts earlier is served from the held snapshot with
\* last_reload unchanged. The held snapshot changes by the handler's reload or by
\* the reader's own watcher, and always to the latest committed index.
C24_HandlerReloadsOnlyWhenDue ==
    /\ [][QueryStarts =>
            IF now - last_reload > RefreshInterval
            THEN \/ r_gen' = Len(log) /\ r_snapshot' = index /\ r_pc' = "stamp"
                    /\ r_reloaded'
                 \/ r_gen' = r_gen /\ r_snapshot' = r_snapshot /\ r_pc' = "fault"
                    /\ last_reload' = last_reload
            ELSE r_gen' = r_gen /\ r_snapshot' = r_snapshot
                 /\ last_reload' = last_reload /\ r_pc' = "search"
                 /\ ~r_reloaded']_vars
    /\ [][last_reload' # last_reload =>
            (r_pc = "stamp" /\ r_reloaded /\ last_reload' = now)]_vars
    /\ [][r_pc = "stamp" => (r_pc' = "stamp" \/ last_reload' = now)]_vars
    /\ [][(r_gen' # r_gen \/ r_snapshot' # r_snapshot) =>
            (r_gen' = Len(log) /\ r_snapshot' = index)]_vars

\* C24 happens: a query starts within the interval, after a commit that the
\* reader has not loaded, and is about to search the snapshot it held
C24_Witness ==
    /\ r_pc = "search"
    /\ ~r_reloaded
    /\ r_start > 0
    /\ now = r_start
    /\ now - last_reload <= RefreshInterval
    /\ last_reload > 0
    /\ r_gen < Len(log)

----
\* The searches step by step, while the writer commits and the watcher reloads
SnapshotRequests ==
    {Request(Some("hello"), Some(1)), Request(Some("*"), None),
     Request(Some("subject:hello"), Some(10))}

NextSnapshot ==
    \/ \E batch \in SearchBatches : WriterInvoke(batch)
    \/ WriterRecord
    \/ WriterCommit
    \/ WriterReturn
    \/ \E request \in SnapshotRequests : ReaderInvokeNoReload(request)
    \/ ReaderTakeSearcher
    \/ ReaderCollect
    \/ HydrateChunk
    \/ HydrateDone
    \/ ReaderReturn
    \/ WatcherReload

SpecSnapshot == InitSearch /\ [][NextSnapshot]_vars

----
\* Properties of one search, under SpecSnapshot

\* the documents of docs that satisfy the query of the request being handled
SatisfyingIn(docs) ==
    {i \in 1..Len(docs) : Matches(docs[i], parse_query(r_req.query[1], FALSE).v[1])}

\* C25: one search is evaluated on one snapshot. Its Searcher holds the index
\* after a whole number of committed batches and does not change while the
\* search runs, whatever is committed or reloaded meanwhile; total_indexed,
\* matched_count and the top matches are all taken from it, so that
\* matched_count <= total_indexed and no more than min(limit, matched_count)
\* records are returned.
C25_OneSearchOneSnapshot ==
    /\ [][(r_pc \in {"collect", "hydrate"}) => r_searcher' = r_searcher]_vars
    /\ [](r_pc \in {"collect", "hydrate"} =>
             \E n \in 0..Len(log) : r_searcher = IndexAfter(n))
    /\ [](r_pc \in {"collect", "hydrate"} => r_total = Len(r_searcher))
    /\ [](r_pc = "hydrate" =>
             /\ r_count = Cardinality(SatisfyingIn(r_searcher))
             /\ IsSubsequence(ids, [i \in 1..Len(r_searcher) |-> r_searcher[i].id])
             /\ \A k \in 1..Len(ids) : \E i \in SatisfyingIn(r_searcher) :
                    r_searcher[i].id = ids[k]
             /\ r_count <= r_total
             /\ Len(ids) <= Min(LimitOf(r_req), r_count)
             /\ Len(emails) <= Len(ids))
    /\ [](( r_pc = "done" /\ r_searched) =>
             /\ r_resp[1].query_num_docs[1] <= r_resp[1].index_num_docs[1]
             /\ Len(r_resp[1].emails[1]) <=
                    Min(LimitOf(r_req), r_resp[1].query_num_docs[1]))

\* C25 happens: the response was computed on a Searcher that held one document,
\* while the reader has loaded a later commit
C25_Witness ==
    /\ r_pc = "done"
    /\ r_searched
    /\ Len(r_searcher) = 1
    /\ Len(r_snapshot) = 2
    /\ r_resp[1].index_num_docs = Some(1)
    /\ r_resp[1].query_num_docs = Some(1)

----
\* Properties of the two handlers side by side, under SpecRefresh

\* C26: reads and writes do not block each other. Whatever the stream handler is
\* doing, mutex and IndexWriter held, the search handler can start and can take
\* each of its steps; whatever the search handler is doing, the stream handler
\* can start, stage and commit.
C26_ReadsAndWritesDoNotBlock ==
    /\ r_pc = "idle" =>
          ENABLED (\E request \in RefreshRequests :
                      ReaderInvokeReload(request) \/ ReaderInvokeNoReload(request))
    /\ r_pc = "stamp" => ENABLED ReaderStamp
    /\ r_pc = "search" => ENABLED ReaderSearch
    /\ r_pc = "hydrate" => ENABLED (HydrateChunk \/ HydrateDone)
    /\ r_pc \in {"done", "fault"} => ENABLED ReaderReturn
    /\ (w_pc = "idle" /\ Len(log) < MaxCommits /\ RecordsIn(log) < MaxRecords) =>
          ENABLED (\E batch \in RefreshBatches : WriterInvoke(batch))
    /\ w_pc = "loop" => ENABLED (WriterRecord \/ WriterCommit)
    /\ w_pc = "committed" => ENABLED WriterReturn

\* C26 happens: the stream handler is in its loop, with the mutex and the
\* IndexWriter, and the search handler is about to search
C26_Witness ==
    /\ w_pc = "loop"
    /\ mutex = "w"
    /\ lock = "w"
    /\ r_pc = "search"
    /\ r_start = now

----
\* The stream handler of the composite-key variant (index_writer.rs): the
\* identity of a document is the text pksk made of the partition key PK and the
\* sort key SK. Strings are sequences of characters here.

\* format!("{}:{}", pk, sk)
pksk_of(pk, sk) == pk \o <<":">> \o sk

\* the image of an item with the keys pk and sk
KeyedImage(pk, sk) ==
    [PK |-> S(pk), SK |-> S(sk), subject |-> S("hello"), body |-> S("world")]

\* parse_document of index_writer.rs: None unless PK, SK, subject and body are
\* all strings
parse_keyed_document(image) ==
    IF \A name \in {"PK", "SK", "subject", "body"} : image[name].t = "S"
    THEN Some([pksk |-> pksk_of(image["PK"].v[1], image["SK"].v[1]),
               pk |-> image["PK"].v[1], sk |-> image["SK"].v[1],
               subject |-> image["subject"].v[1], body |-> image["body"].v[1]])
    ELSE None

\* get_pksk_term: the term of a document's pksk field
get_pksk_term(doc) == doc.pksk

\* delete_term(term) committed: the documents whose pksk is not the term
WithoutPksk(docs, term) == SelectSeq(docs, LAMBDA d : d.pksk # term)

\* func on a batch of one record, and its commit
func(docs, record) ==
    LET image == IF record.event_name = "REMOVE" THEN record.old_image
                 ELSE record.new_image
        doc == parse_keyed_document(image)
    IN  IF doc = None THEN docs
        ELSE CASE record.event_name = "INSERT" -> Append(docs, doc[1])
               [] record.event_name = "MODIFY" ->
                     Append(WithoutPksk(docs, get_pksk_term(doc[1])), doc[1])
               [] record.event_name = "REMOVE" ->
                     WithoutPksk(docs, get_pksk_term(doc[1]))
               [] OTHER -> docs

\* the primary keys of the table: keys made of the letter a and the colon
KeyPairs ==
    {<<<<"a">>, <<"a">>>>, <<<<"a">>, <<":", "a">>>>, <<<<"a", ":">>, <<"a">>>>}

KeyedRecords ==
    {[event_name |-> name, new_image |-> KeyedImage(key[1], key[2]),
      old_image |-> KeyedImage(key[1], key[2])] :
        name \in {"INSERT", "MODIFY", "REMOVE"}, key \in KeyPairs}

\* the handler is invoked with one record, applies it and commits
KeyedInvoke(record) ==
    /\ w_pc = "idle"
    /\ Len(log) < MaxCommits
    /\ index' = func(index, record)
    /\ log' = Append(log, <<record>>)
    /\ UNCHANGED <<w_pc, w_batch, w_i, w_staged, w_created, w_updated, w_deleted,
                   w_report, unseen_since, lock, w_before, w_redelivered, ovars,
                   svars>>
    /\ UNCHANGED <<rvars, hvars, now, table, evars>>

NextKeys == \E record \in KeyedRecords : KeyedInvoke(record)

SpecKeys == InitRefresh /\ [][NextKeys]_vars

----
\* Properties of the identity term, under SpecKeys

\* the documents of other primary keys than (pk, sk)
OfOtherKeys(docs, pk, sk) == SelectSeq(docs, LAMBDA d : ~(d.pk = pk /\ d.sk = sk))

\* C27: a Modify or a Remove of the primary key (pk, sk) changes only documents
\* of that key: the documents of every other key, also of keys with a colon in
\* a part, are in the index after the commit as they were before.
C27_OtherKeysUntouched ==
    [][log' # log =>
         LET record == log'[Len(log')][1]
             pk == record.new_image["PK"].v[1]
             sk == record.new_image["SK"].v[1]
         IN  record.event_name \in {"MODIFY", "REMOVE"} =>
                 OfOtherKeys(index', pk, sk) = OfOtherKeys(index, pk, sk)]_vars

----
\* The stream handler alone, fed batches whose records may name an operation
\* that is none of the three
ReportRecords ==
    {Insert(Good("e1", "hello")), Modify(Good("e1", "bye")),
     Remove(Good("e1", "hello")), Record("OTHER", Good("e1", "hello"), EmptyImage),
     Insert(NoBody("e1"))}

ReportBatches == SeqUpTo(ReportRecords, MaxBatchLen)

NextReport ==
    \/ \E batch \in ReportBatches : WriterInvoke(batch)
    \/ WriterRecord
    \/ WriterCommit
    \/ WriterReturn

SpecReport == Init /\ [][NextReport]_vars

----
\* Properties of the report, under SpecReport

\* the records of a batch with the given operation name
Named(batch, name) == {i \in 1..Len(batch) : batch[i].event_name = name}

\* the records of a batch whose operation is none of the three
Unnamed(batch) ==
    {i \in 1..Len(batch) : batch[i].event_name \notin {"INSERT", "MODIFY", "REMOVE"}}

\* C28: the report of an index_write that returns Ok has no negative counter
\* (the u32 subtraction does not underflow) and total = created + updated +
\* deleted + skipped, total being the number of records delivered; a record whose
\* operation is none of INSERT, MODIFY, REMOVE stages nothing, moves no other
\* counter and is counted in skipped.
C28_ReportAddsUp ==
    /\ [](w_report # None =>
            LET report == w_report[1]
            IN  /\ report.total = Len(w_batch)
                /\ report.created >= 0 /\ report.updated >= 0
                /\ report.deleted >= 0 /\ report.skipped >= 0
                /\ report.total = report.created + report.updated + report.deleted
                                    + report.skipped
                /\ report.created = Cardinality(Named(w_batch, "INSERT"))
                /\ report.updated = Cardinality(Named(w_batch, "MODIFY"))
                /\ report.deleted = Cardinality(Named(w_batch, "REMOVE"))
                /\ report.skipped = Cardinality(Unnamed(w_batch)))
    /\ [][(w_pc = "loop" /\ w_i \in Unnamed(w_batch)) =>
            (w_staged' = w_staged /\ w_created' = w_created /\ w_updated' = w_updated
             /\ w_deleted' = w_deleted /\ w_pc' = "loop" /\ w_i' = w_i + 1)]_vars
    /\ [](w_pc = "loop" => w_created + w_updated + w_deleted <= w_i - 1)

\* C28 happens: a batch of an Insert and a record of another operation was
\* committed and reported with one created and one skipped
C28_Witness ==
    /\ w_pc = "committed"
    /\ w_batch = <<Record("OTHER", Good("e1", "hello"), EmptyImage),
                   Insert(Good("e1", "hello"))>>
    /\ w_report = Some([total |-> 2, created |-> 1, updated |-> 0, deleted |-> 0,
                        skipped |-> 1])

----
\* Properties of the reader's mutex, under SpecSearch

\* C29: a search invocation that fails leaves the reader's mutex acquirable:
\* the mutex is never poisoned, and no later invocation ends at lock() without
\* having searched.
C29_ReaderLockStaysAcquirable ==
    /\ ~poisoned
    /\ ~(r_pc = "panic" /\ ~r_searched)
    /\ r_pc = "idle" =>
          ENABLED (\E request \in Requests : ReaderInvokeNoReload(request))

----
\* Properties of a failed reload, under SpecRefresh

\* C30: a reload that fails at the start of a query leaves last_reload and the
\* held snapshot as they were and ends the invocation with the error and no
\* response; last_reload stays as it was until the invocation has returned, so
\* the reader is still due, and the next query attempts the reload again.
C30_FailedReloadIsRetried ==
    /\ [][(QueryStarts /\ r_pc' = "fault") =>
            /\ last_reload' = last_reload
            /\ r_snapshot' = r_snapshot
            /\ r_gen' = r_gen
            /\ r_resp' = None
            /\ r_error' = Some("reload")]_vars
    /\ [](r_pc = "fault" => (r_resp = None /\ now - last_reload > RefreshInterval))
    /\ [][r_pc = "fault" => (last_reload' = last_reload /\ r_pc' \in {"fault", "idle"})]_vars
    /\ [][(r_pc = "fault" /\ r_pc' = "idle") =>
            (r_resp' = None /\ now' - last_reload' > RefreshInterval)]_vars
    /\ [][(QueryStarts /\ now - last_reload > RefreshInterval) =>
            r_pc' \in {"stamp", "fault"}]_vars

\* C30 happens: a reload fails after a commit that the reader had not loaded,
\* and the reader still holds the snapshot and the last_reload of its start
C30_Witness ==
    /\ r_pc = "fault"
    /\ r_error = Some("reload")
    /\ last_reload = 0
    /\ now > RefreshInterval
    /\ Len(log) > 0
    /\ r_gen = 0
    /\ r_snapshot # index

----
\* ensure_index (email_index_schema.rs) and IndexSchema::create (lib.rs), called
\* by several processes that start on the same mount

\* what the rest of the program does while a process runs ensure_index: nothing
OthersIdle == UNCHANGED <<wvars, rvars, hvars, now, table, unseen_since>>

\* if !index_path.exists()
EnsureExists(p) ==
    /\ e_pc[p] = "start"
    /\ e_pc' = [e_pc EXCEPT ![p] = IF index_dir = "absent" THEN "create_dir" ELSE "open"]
    /\ UNCHANGED <<index_dir, e_error>>
    /\ OthersIdle

\* std::fs::create_dir(&index_path).context("Error creating index dir")?
\* create_dir fails when the path exists
EnsureCreateDir(p) ==
    /\ e_pc[p] = "create_dir"
    /\ IF index_dir = "absent"
       THEN /\ index_dir' = "empty"
            /\ e_pc' = [e_pc EXCEPT ![p] = "create_in_dir"]
            /\ UNCHANGED e_error
       ELSE /\ e_pc' = [e_pc EXCEPT ![p] = "failed"]
            /\ e_error' = [e_error EXCEPT ![p] = Some("Error creating index dir")]
            /\ UNCHANGED index_dir
    /\ OthersIdle

\* Index::create_in_dir(&index_path, self.schema.clone()).context("Error creating index")?
\* create_in_dir refuses a directory that holds a meta.json, and writes one otherwise
EnsureCreateInDir(p) ==
    /\ e_pc[p] = "create_in_dir"
    /\ IF index_dir = "index"
       THEN /\ e_pc' = [e_pc EXCEPT ![p] = "failed"]
            /\ e_error' = [e_error EXCEPT ![p] = Some("Error creating index")]
            /\ UNCHANGED index_dir
       ELSE /\ index_dir' = "index"
            /\ e_pc' = [e_pc EXCEPT ![p] = "opened"]
            /\ UNCHANGED e_error
    /\ OthersIdle

\* self.open().context("Error opening index")?
\* Index::open_in_dir fails in a directory without meta.json
EnsureOpen(p) ==
    /\ e_pc[p] = "open"
    /\ IF index_dir = "index"
       THEN /\ e_pc' = [e_pc EXCEPT ![p] = "opened"]
            /\ UNCHANGED e_error
       ELSE /\ e_pc' = [e_pc EXCEPT ![p] = "failed"]
            /\ e_error' = [e_error EXCEPT ![p] = Some("Error opening index")]
    /\ UNCHANGED index_dir
    /\ OthersIdle

\* the processes start together, on a mount with or without an index
InitOpen ==
    /\ InitHandlers
    /\ index_dir \in {"absent", "index"}
    /\ e_pc = [p \in Openers |-> "start"]
    /\ e_error = [p \in Openers |-> None]

NextOpen ==
    \/ \E p \in Openers : EnsureExists(p)
    \/ \E p \in Openers : EnsureCreateDir(p)
    \/ \E p \in Openers : EnsureCreateInDir(p)
    \/ \E p \in Openers : EnsureOpen(p)

SpecOpen == InitOpen /\ [][NextOpen]_vars

\* C31: when several processes call ensure_index together on a mount without an
\* index, no call fails, and a call that has returned has opened the index that
\* was created: none returns from a directory without meta.json.
C31_ConcurrentFirstStartIsSafe ==
    \A p \in Openers :
        /\ e_pc[p] # "failed"
        /\ e_error[p] = None
        /\ e_pc[p] = "opened" => index_dir = "index"

====
